---------------------------- MODULE Spec2Model ----------------------------
(***************************************************************************)
(* State-machine model of the cyberfly device client:                      *)
(*   - SensorManager (src/cyberflySdk/sensors.py): the sensor registry,    *)
(*     its two tables `sensors` (live instances) and `sensor_configs`.     *)
(*   - CyberflyClient.on_received (src/cyberflySdk/main.py): the inbound   *)
(*     dispatch of one command envelope.                                   *)
(*                                                                         *)
(* Python values are modelled as follows.  A dict is a function whose      *)
(* DOMAIN is the set of keys present.  None is the string "None".  The     *)
(* results of calls into collaborators whose code is outside the model     *)
(* (the driver factory, the driver's read, the platform HTTP API, the      *)
(* signer, the socket, the authenticator, the user callback, the save      *)
(* hook) are inputs of the actions: every call may return or raise.        *)
(* Timestamps (time.time()) are left out of results.                       *)
(***************************************************************************)
EXTENDS Naturals, Sequences, FiniteSets, TLC

VARIABLES
    sensors,            \* SensorManager.sensors: sensor_id -> live instance
    sensor_configs,     \* SensorManager.sensor_configs: sensor_id -> SensorConfig
    config_save_hook,   \* SensorManager._config_save_hook is set
    last,               \* the registry call that has just returned (observation)
    rules,              \* CyberflyClient.rules
    device_info,        \* CyberflyClient.device_info
    pc,                 \* position of the transport's dispatch loop
    env,                \* the envelope on_received was called with
    outcomes,           \* what the collaborators did during that call
    entry,              \* the client's state when on_received was called
    events,             \* what on_received did for that envelope, in order
    prev_fault,         \* the previous envelope's user callback raised
    loop_pc,            \* run_device's main loop: "off", "loop", "publishing",
                        \* "attempted", "logged", "sleeping", "interrupted",
                        \* "crashed"
    elapsed,            \* current_time - last_publish, in seconds (capped)
    attempt,            \* what the latest loop iteration did about publishing
    init_pc,            \* position of CyberflyClient.__init__, and of the
                        \* application's set-up after it
    stack,              \* the frames of connect / subscribe, outermost first
    exc,                \* a RecursionError is unwinding the stack
    link,               \* what the socket has accepted so far
    missed,             \* a message arrived while no handler was registered
    delivered,          \* the messages the socket has handed to on_received
    writer,             \* a registry mutation in progress, statement by statement
    reader              \* a telemetry read in progress in the other thread

vars == <<sensors, sensor_configs, config_save_hook, last,
          rules, device_info, pc, env, outcomes, entry, events, prev_fault,
          loop_pc, elapsed, attempt, init_pc, stack, exc, link, missed, delivered,
          writer, reader>>

agent_vars == <<loop_pc, elapsed, attempt>>

startup_vars == <<init_pc, stack, exc, link, missed, delivered>>

thread_vars == <<writer, reader>>

client_vars == <<rules, device_info, pc, env, outcomes, entry, events, prev_fault,
                 agent_vars, startup_vars, thread_vars>>

(***************************************************************************)
(* Value domains                                                           *)
(***************************************************************************)
None == "None"

SensorIds == {"s1", "s2"}
SensorTypes == {"dht11", "bmp280"}
InputMaps == {"{}", "{pin: 4}"}
Aliases == {None, "porch"}

\* SensorConfig without its key (the key is the table's key).
SensorConfig(sensor_type, inputs, enabled, alias) ==
    [sensor_type |-> sensor_type, inputs |-> inputs,
     enabled |-> enabled, alias |-> alias]

\* The configurations a caller hands to add_sensor.  SensorConfig checks
\* none of its fields (the dataclass of lines 17-24), so a configuration
\* with an empty sensor_type can be stored too.
Configs == [sensor_type : SensorTypes, inputs : InputMaps,
            enabled : BOOLEAN, alias : Aliases]
           \cup [sensor_type : {""}, inputs : {"{}"}, enabled : BOOLEAN, alias : {None}]

\* The registry as one value, for the operators below.
Registry(sns, cfgs, hook) == [sensors |-> sns, sensor_configs |-> cfgs, hook |-> hook]

Reg == Registry(sensors, sensor_configs, config_save_hook)

\* The client's mutable state as one value.
Snapshot ==
    [rules |-> rules, device_info |-> device_info,
     sensors |-> sensors, sensor_configs |-> sensor_configs]

(***************************************************************************)
(* dict helpers                                                            *)
(***************************************************************************)
Put(d, k, v) == [x \in (DOMAIN d) \cup {k} |-> IF x = k THEN v ELSE d[x]]

Del(d, k) == [x \in (DOMAIN d) \ {k} |-> d[x]]

EmptyDict == [x \in {} |-> None]

(***************************************************************************)
(* The driver factory, create_sensor(type, inputs).  Each call either      *)
(* raises or returns a new object: the object carries a serial that no     *)
(* instance alive when the registry operation started carries.             *)
(***************************************************************************)
Serials == 1 .. (Cardinality(SensorIds) + 1)

FreshSerial(sns) ==
    LET used == {sns[i].serial : i \in DOMAIN sns}
    IN  CHOOSE n \in Serials \ used : \A m \in Serials \ used : n <= m

FactoryOutcomes(sns) ==
    {[ok |-> FALSE, serial |-> FreshSerial(sns)],
     [ok |-> TRUE, serial |-> FreshSerial(sns)]}

HookOutcomes == {"ok", "raise"}

Instance(sensor_type, inputs, serial) ==
    [sensor_type |-> sensor_type, inputs |-> inputs, serial |-> serial]

\* _persist_configs: the tables handed to the save hook by this call.
\* hk is what the hook does when called: "ok" or "raise"; either way the
\* exception never leaves _persist_configs.
_persist_configs(reg, hk) ==
    IF reg.hook THEN << [configs |-> reg.sensor_configs, outcome |-> hk] >> ELSE << >>

(***************************************************************************)
(* SensorManager operations, as functions of the registry and of what the  *)
(* collaborators do.  Each yields the registry afterwards (reg), the       *)
(* returned value (ret) and the save-hook calls made (saves).              *)
(***************************************************************************)
Done(reg, ret, saves) == [reg |-> reg, ret |-> ret, saves |-> saves]

\* add_sensor (lines 73-103).  The faulty variant stores the configuration
\* before the factory runs.
add_sensor_StoresBeforeCreate(reg, sensor_id, config, mk) ==
    IF ~config.enabled
    THEN Done([reg EXCEPT !.sensor_configs = Put(@, sensor_id, config),
                          !.sensors = Del(@, sensor_id)], TRUE, << >>)
    ELSE IF ~mk.ok
    THEN Done([reg EXCEPT !.sensor_configs = Put(@, sensor_id, config)], FALSE, << >>)
    ELSE Done([reg EXCEPT
                 !.sensors = Put(@, sensor_id,
                                 Instance(config.sensor_type, config.inputs, mk.serial)),
                 !.sensor_configs = Put(@, sensor_id, config)], TRUE, << >>)

add_sensor(reg, sensor_id, config, mk) ==
    IF ~config.enabled
    THEN \* store the configuration without instantiating hardware
         Done([reg EXCEPT !.sensor_configs = Put(@, sensor_id, config),
                          !.sensors = Del(@, sensor_id)], TRUE, << >>)
    ELSE IF ~mk.ok
    THEN \* the factory raised: caught, nothing was assigned
         Done(reg, FALSE, << >>)
    ELSE Done([reg EXCEPT
                 !.sensors = Put(@, sensor_id,
                                 Instance(config.sensor_type, config.inputs, mk.serial)),
                 !.sensor_configs = Put(@, sensor_id, config)], TRUE, << >>)

\* remove_sensor (lines 105-125).  Two faulty variants: one hands the table to
\* the save hook before it deletes; the other lets a raising save hook reach
\* remove_sensor's own handler, which returns False.
remove_sensor_SavesFirst(reg, sensor_id, hk) ==
    LET after == [reg EXCEPT !.sensors = Del(@, sensor_id),
                             !.sensor_configs = Del(@, sensor_id)]
    IN  Done(after, TRUE, _persist_configs(reg, hk))

remove_sensor_HookFaultFails(reg, sensor_id, hk) ==
    LET after == [reg EXCEPT !.sensors = Del(@, sensor_id),
                             !.sensor_configs = Del(@, sensor_id)]
    IN  Done(after, ~(reg.hook /\ hk = "raise"), _persist_configs(after, hk))

remove_sensor(reg, sensor_id, hk) ==
    LET after == [reg EXCEPT !.sensors = Del(@, sensor_id),
                             !.sensor_configs = Del(@, sensor_id)]
    IN  Done(after, TRUE, _persist_configs(after, hk))

\* enable_sensor sets config.enabled on the stored object itself (line 322)
\* and then hands that object to add_sensor.
enable_sensor(reg, sensor_id, mk, hk) ==
    IF sensor_id \in DOMAIN reg.sensor_configs
    THEN LET marked == [reg EXCEPT !.sensor_configs[sensor_id].enabled = TRUE]
             added == add_sensor(marked, sensor_id, marked.sensor_configs[sensor_id], mk)
         IN  Done(added.reg, added.ret,
                  IF added.ret THEN _persist_configs(added.reg, hk) ELSE << >>)
    ELSE Done(reg, FALSE, << >>)

\* disable_sensor (lines 329-337).  The faulty variant keeps the live instance.
disable_sensor_KeepsInstance(reg, sensor_id, hk) ==
    IF sensor_id \in DOMAIN reg.sensor_configs
    THEN LET after == [reg EXCEPT !.sensor_configs[sensor_id].enabled = FALSE]
         IN  Done(after, TRUE, _persist_configs(after, hk))
    ELSE Done(reg, FALSE, << >>)

disable_sensor(reg, sensor_id, hk) ==
    IF sensor_id \in DOMAIN reg.sensor_configs
    THEN LET after == [reg EXCEPT !.sensor_configs[sensor_id].enabled = FALSE,
                                  !.sensors = Del(@, sensor_id)]
         IN  Done(after, TRUE, _persist_configs(after, hk))
    ELSE Done(reg, FALSE, << >>)

(***************************************************************************)
(* configure_sensor.  The payload new_config is a dict that may hold any   *)
(* of the keys below: `keys` is the set of keys present, and a field whose *)
(* key is absent is never read.                                            *)
(***************************************************************************)
ConfigKeys == {"sensor_type", "inputs", "enabled", "alias"}

\* A sensor_type a payload may carry: a driver name or the empty string,
\* which Python's `or` on line 344 treats like a missing key.
PayloadTypes == SensorTypes \cup {""}

Truthy(v) == v \notin {None, ""}

\* The interpreter raises RecursionError when a call would exceed its
\* recursion limit (sys.getrecursionlimit(), 1000 by default, scaled down
\* here).
RecursionLimit == 6

Payloads ==
    {p \in [keys : SUBSET ConfigKeys, sensor_type : PayloadTypes,
             inputs : InputMaps, enabled : BOOLEAN, alias : Aliases] :
        /\ "sensor_type" \notin p.keys => p.sensor_type = "dht11"
        /\ "inputs" \notin p.keys => p.inputs = "{}"
        /\ "enabled" \notin p.keys => p.enabled = TRUE
        /\ "alias" \notin p.keys => p.alias = None}

ConfigureError(msg) == [status |-> "error", error |-> msg]

ConfigureSuccess(sensor_id, config) ==
    [status |-> "success", sensor_id |-> sensor_id, config |-> config]

\* Lines 374-378, the rollback: put the previous configuration back and,
\* when there was one, the previous instance.  `before` is the registry when
\* configure_sensor was called, `now` the registry after the failed add.
\* The faulty variant forgets the instance.
RollBack_ConfigOnly(before, now, sensor_id) ==
    IF sensor_id \in DOMAIN before.sensor_configs
    THEN [now EXCEPT
            !.sensor_configs = Put(@, sensor_id, before.sensor_configs[sensor_id])]
    ELSE now

RollBack(before, now, sensor_id) ==
    IF sensor_id \in DOMAIN before.sensor_configs
    THEN [now EXCEPT
            !.sensor_configs = Put(@, sensor_id, before.sensor_configs[sensor_id]),
            !.sensors = IF sensor_id \in DOMAIN before.sensors
                        THEN Put(@, sensor_id, before.sensors[sensor_id])
                        ELSE @]
    ELSE now

\* The faulty variant builds the configuration from the payload and the
\* defaults alone: it replaces instead of merging.
configure_sensor_Replaces(reg, sensor_id, new_config, mk, hk) ==
    LET exists == sensor_id \in DOMAIN reg.sensor_configs
        existing == reg.sensor_configs[sensor_id]
        sensor_type ==
            IF "sensor_type" \in new_config.keys /\ Truthy(new_config.sensor_type)
            THEN new_config.sensor_type
            ELSE IF exists THEN existing.sensor_type ELSE None
        inputs == IF "inputs" \in new_config.keys THEN new_config.inputs ELSE "{}"
        enabled == IF "enabled" \in new_config.keys THEN new_config.enabled ELSE TRUE
        alias == IF "alias" \in new_config.keys THEN new_config.alias ELSE None
        updated_config == SensorConfig(sensor_type, inputs, enabled, alias)
        cleared == [reg EXCEPT !.sensors = Del(@, sensor_id)]
        added == add_sensor(cleared, sensor_id, updated_config, mk)
    IN  IF ~Truthy(sensor_type)
        THEN Done(reg, ConfigureError("sensor_type is required when creating a new sensor"),
                  << >>)
        ELSE IF ~added.ret /\ enabled
        THEN Done(RollBack(reg, added.reg, sensor_id),
                  ConfigureError("Failed to configure sensor"), << >>)
        ELSE Done(added.reg, ConfigureSuccess(sensor_id, updated_config),
                  _persist_configs(added.reg, hk))

configure_sensor(reg, sensor_id, new_config, mk, hk) ==
    LET exists == sensor_id \in DOMAIN reg.sensor_configs
        existing == reg.sensor_configs[sensor_id]
        \* lines 344-355: each field from the payload, else from the stored
        \* configuration, else the default; line 344 uses `or`, so a
        \* sensor_type that is present but empty counts as missing, and
        \* line 346 tests `if not sensor_type`, so a stored empty type is
        \* refused like a missing one
        sensor_type ==
            IF "sensor_type" \in new_config.keys /\ Truthy(new_config.sensor_type)
            THEN new_config.sensor_type
            ELSE IF exists THEN existing.sensor_type ELSE None
        inputs ==
            IF "inputs" \in new_config.keys THEN new_config.inputs
            ELSE IF exists THEN existing.inputs ELSE "{}"
        enabled ==
            IF "enabled" \in new_config.keys THEN new_config.enabled
            ELSE IF exists THEN existing.enabled ELSE TRUE
        alias ==
            IF "alias" \in new_config.keys THEN new_config.alias
            ELSE IF exists THEN existing.alias ELSE None
        updated_config == SensorConfig(sensor_type, inputs, enabled, alias)
        \* lines 368-371: drop the instance from the table, then add
        cleared == [reg EXCEPT !.sensors = Del(@, sensor_id)]
        added == add_sensor(cleared, sensor_id, updated_config, mk)
    IN  IF ~Truthy(sensor_type)
        THEN Done(reg, ConfigureError("sensor_type is required when creating a new sensor"),
                  << >>)
        ELSE IF ~added.ret /\ enabled
        THEN Done(RollBack(reg, added.reg, sensor_id),
                  ConfigureError("Failed to configure sensor"), << >>)
        ELSE Done(added.reg, ConfigureSuccess(sensor_id, updated_config),
                  _persist_configs(added.reg, hk))

(***************************************************************************)
(* load_sensor_configs (lines 394-422).  An entry of the list is a dict    *)
(* with a sensor_id and, possibly, the keys sensor_type and enabled; the   *)
(* keys inputs and alias are left out and take their defaults.             *)
(***************************************************************************)
LoadKeys == {"sensor_type", "enabled"}

LoadEntries ==
    {c \in [sensor_id : SensorIds, keys : SUBSET LoadKeys,
             sensor_type : {"dht11"}, enabled : BOOLEAN] :
        "enabled" \notin c.keys => c.enabled = TRUE}

\* The body of the for loop for one config_dict (lines 407-420).
load_entry(reg, config_dict, mk) ==
    IF "sensor_type" \notin config_dict.keys
    THEN \* KeyError, caught and logged on lines 419-420
         Done(reg, FALSE, << >>)
    ELSE add_sensor(reg, config_dict.sensor_id,
                    SensorConfig(config_dict.sensor_type, "{}",
                                 config_dict.enabled, None), mk)

(***************************************************************************)
(* Reading, executing, status.  An error text that names a sensor is the   *)
(* pair of the text and the id.                                            *)
(***************************************************************************)
Msg(text, sensor_id) == [text |-> text, sensor_id |-> sensor_id]

SensorReading(sensor_id, sensor_type, data, status, error) ==
    [sensor_id |-> sensor_id, sensor_type |-> sensor_type, data |-> data,
     status |-> status, error |-> error]

\* What went wrong, when the operation itself raised instead of returning.
Raised(reg, error) == [reg |-> reg, raised |-> TRUE, error |-> error]

Returned(reg, ret) == [reg |-> reg, raised |-> FALSE, ret |-> ret, saves |-> << >>]

ReturnedSaving(reg, ret, saves) ==
    [reg |-> reg, raised |-> FALSE, ret |-> ret, saves |-> saves]

\* read_sensor; rd says whether the driver's read() returns (TRUE) or raises.
\* Line 149 indexes sensor_configs with no guard: a KeyError leaves read_sensor.
\* The faulty variant looks the configuration up before the instance.
\* Another faulty variant drops the instance whose driver failed to read.
read_sensor_DropsOnFault(reg, sensor_id, rd) ==
    IF sensor_id \notin DOMAIN reg.sensors
    THEN Returned(reg, SensorReading(sensor_id, "unknown", "{}", "error",
                                     Msg("Sensor not found", sensor_id)))
    ELSE IF sensor_id \notin DOMAIN reg.sensor_configs
    THEN Raised(reg, Msg("KeyError", sensor_id))
    ELSE LET config == reg.sensor_configs[sensor_id]
         IN  IF ~config.enabled
             THEN Returned(reg, SensorReading(sensor_id, config.sensor_type, "{}", "error",
                                              Msg("Sensor is disabled", sensor_id)))
             ELSE IF rd
             THEN Returned(reg, SensorReading(sensor_id, config.sensor_type,
                                              "{driver data}", "success", Msg(None, None)))
             ELSE Returned([reg EXCEPT !.sensors = Del(reg.sensors, sensor_id)],
                           SensorReading(sensor_id, config.sensor_type, "{}", "error",
                                         Msg("driver read failed", None)))

read_sensor_ConfigFirst(reg, sensor_id, rd) ==
    IF sensor_id \notin DOMAIN reg.sensor_configs
    THEN Raised(reg, Msg("KeyError", sensor_id))
    ELSE LET config == reg.sensor_configs[sensor_id]
         IN  IF ~config.enabled
             THEN Returned(reg, SensorReading(sensor_id, config.sensor_type, "{}", "error",
                                              Msg("Sensor is disabled", sensor_id)))
             ELSE IF sensor_id \notin DOMAIN reg.sensors
             THEN Returned(reg, SensorReading(sensor_id, "unknown", "{}", "error",
                                              Msg("Sensor not found", sensor_id)))
             ELSE IF rd
             THEN Returned(reg, SensorReading(sensor_id, config.sensor_type,
                                              "{driver data}", "success", Msg(None, None)))
             ELSE Returned(reg, SensorReading(sensor_id, config.sensor_type, "{}", "error",
                                              Msg("driver read failed", None)))

read_sensor(reg, sensor_id, rd) ==
    IF sensor_id \notin DOMAIN reg.sensors
    THEN Returned(reg, SensorReading(sensor_id, "unknown", "{}", "error",
                                     Msg("Sensor not found", sensor_id)))
    ELSE IF sensor_id \notin DOMAIN reg.sensor_configs
    THEN Raised(reg, Msg("KeyError", sensor_id))
    ELSE LET config == reg.sensor_configs[sensor_id]
         IN  IF ~config.enabled
             THEN Returned(reg, SensorReading(sensor_id, config.sensor_type, "{}", "error",
                                              Msg("Sensor is disabled", sensor_id)))
             ELSE IF rd
             THEN Returned(reg, SensorReading(sensor_id, config.sensor_type,
                                              "{driver data}", "success", Msg(None, None)))
             ELSE Returned(reg, SensorReading(sensor_id, config.sensor_type, "{}", "error",
                                              Msg("driver read failed", None)))

\* read_all_sensors: one reading per live instance whose configuration is
\* enabled; rds[id] is what that driver's read() does.  The readings are
\* keyed by id (the list's order is the table's insertion order).
read_all_sensors(reg, rds) ==
    IF \E i \in DOMAIN reg.sensors : i \notin DOMAIN reg.sensor_configs
    THEN Raised(reg, Msg("KeyError", None))
    ELSE LET read == {i \in DOMAIN reg.sensors : reg.sensor_configs[i].enabled}
         IN  Returned(reg, [i \in read |-> read_sensor(reg, i, rds[i]).ret])

ExecOutcomes == {"done", "unsupported", "raise"}

\* Lines 229-245: the actions that execute_sensor_action knows; any other
\* (the default "read" of process_command among them) is not supported.
KnownVerbs == {"display_text", "append_text", "clear", "toggle", "set_output"}

\* execute_sensor_action; ex says what the instance does with the verb: it
\* has the capability and performs it, lacks it, or raises while doing it.
execute_sensor_action(reg, sensor_id, action, ex) ==
    IF sensor_id \notin DOMAIN reg.sensors
    THEN Returned(reg, [status |-> "error", error |-> Msg("Sensor not found", sensor_id)])
    ELSE IF sensor_id \notin DOMAIN reg.sensor_configs
    THEN Raised(reg, Msg("KeyError", sensor_id))
    ELSE IF ~reg.sensor_configs[sensor_id].enabled
    THEN Returned(reg, [status |-> "error", error |-> Msg("Sensor is disabled", sensor_id)])
    ELSE IF action \in KnownVerbs /\ ex = "done"
    THEN Returned(reg, [status |-> "success", action |-> action])
    ELSE IF action \notin KnownVerbs \/ ex = "unsupported"
    THEN Returned(reg, [status |-> "error", error |-> Msg("Action not supported", sensor_id)])
    ELSE Returned(reg, [status |-> "error", error |-> Msg("driver action failed", None)])

SensorStatus(reg, sensor_id) ==
    LET config == reg.sensor_configs[sensor_id]
    IN  [sensor_id |-> sensor_id, sensor_type |-> config.sensor_type,
         enabled |-> config.enabled, alias |-> config.alias, inputs |-> config.inputs,
         initialized |-> sensor_id \in DOMAIN reg.sensors]

\* get_sensor_status(sensor_id), called with `depth` frames of it already on
\* the stack.  Line 285 tests `if sensor_id:`, so every falsy id (None, the
\* empty string) asks for all sensors; lines 308-309 then call
\* get_sensor_status(sid) for each stored id, and a stored falsy id asks for
\* all sensors again, until the interpreter raises RecursionError.
RECURSIVE get_sensor_status_at(_, _, _)
get_sensor_status_at(reg, sensor_id, depth) ==
    IF depth >= RecursionLimit
    THEN Raised(reg, Msg("RecursionError", None))
    ELSE IF Truthy(sensor_id)
    THEN IF sensor_id \notin DOMAIN reg.sensor_configs
         THEN Returned(reg, [status |-> "error",
                             error |-> Msg("Sensor not found", sensor_id)])
         ELSE Returned(reg, SensorStatus(reg, sensor_id))
    ELSE LET each == [sid \in DOMAIN reg.sensor_configs |->
                         get_sensor_status_at(reg, sid, depth + 1)]
         IN  IF \E sid \in DOMAIN each : each[sid].raised
             THEN Raised(reg, Msg("RecursionError", None))
             ELSE Returned(reg,
                           [total_sensors |-> Cardinality(DOMAIN reg.sensor_configs),
                            sensors |-> [sid \in DOMAIN each |-> each[sid].ret]])

get_sensor_status(reg, sensor_id) == get_sensor_status_at(reg, sensor_id, 0)

(***************************************************************************)
(* process_command.  A command is the Python value found under             *)
(* sensor_command: `py` is its type.  For a dict, `action` and `sensor_id` *)
(* are None when the key is absent, `verb` is params.execute_action and    *)
(* `config` the configure payload.  d says what the drivers, the factory   *)
(* and the save hook do during the command.                                *)
(***************************************************************************)
Command(py, action, sensor_id, verb, config) ==
    [py |-> py, action |-> action, sensor_id |-> sensor_id,
     verb |-> verb, config |-> config]

EmptyPayload ==
    [keys |-> {}, sensor_type |-> "dht11", inputs |-> "{}", enabled |-> TRUE, alias |-> None]

DictCommand(action, sensor_id) == Command("dict", action, sensor_id, None, EmptyPayload)

process_command(reg, command, d) ==
    IF command.py \notin {"dict", "empty_dict"}
    THEN \* command.get raises, and raises again in the handler at line 525
         Raised(reg, Msg("AttributeError", None))
    ELSE LET action == command.action
             sensor_id == command.sensor_id
             \* line 475: params.get('execute_action', 'read')
             execute_action == IF command.verb = None THEN "read" ELSE command.verb
         IN  IF action = "read"
             THEN IF Truthy(sensor_id)
                  THEN LET r == read_sensor(reg, sensor_id, d.reads[sensor_id])
                       IN  IF r.raised
                           THEN Returned(r.reg, [command |-> action, status |-> "error",
                                                 error |-> r.error])
                           ELSE Returned(r.reg, [command |-> "read", sensor_id |-> sensor_id,
                                                 result |-> r.ret])
                  ELSE LET r == read_all_sensors(reg, d.reads)
                       IN  IF r.raised
                           THEN Returned(r.reg, [command |-> action, status |-> "error",
                                                 error |-> r.error])
                           ELSE Returned(r.reg, [command |-> "read_all", result |-> r.ret,
                                                 count |-> Cardinality(DOMAIN r.ret)])
             ELSE IF action = "execute"
             THEN IF ~Truthy(sensor_id)
                  THEN Returned(reg, [command |-> "execute", status |-> "error",
                                      error |-> Msg("sensor_id required for execute command",
                                                    None)])
                  ELSE LET r == execute_sensor_action(reg, sensor_id, execute_action, d.exec)
                       IN  IF r.raised
                           THEN Returned(r.reg, [command |-> action, status |-> "error",
                                                 error |-> r.error])
                           ELSE Returned(r.reg, [command |-> "execute", sensor_id |-> sensor_id,
                                                 execute_action |-> execute_action,
                                                 result |-> r.ret])
             ELSE IF action = "status"
             THEN LET r == get_sensor_status(reg, sensor_id)
                  IN  IF r.raised
                      THEN Returned(reg, [command |-> action, status |-> "error",
                                          error |-> r.error])
                      ELSE Returned(reg, [command |-> "status", sensor_id |-> sensor_id,
                                          result |-> r.ret])
             ELSE IF action = "configure"
             THEN IF ~Truthy(sensor_id)
                  THEN Returned(reg, [command |-> "configure", status |-> "error",
                                      error |-> Msg("sensor_id is required for configure command",
                                                    None)])
                  ELSE LET r == configure_sensor(reg, sensor_id, command.config,
                                                 d.factory, d.hook)
                       IN  ReturnedSaving(r.reg,
                                          [command |-> "configure", sensor_id |-> sensor_id,
                                           result |-> r.ret],
                                          r.saves)
             ELSE Returned(reg, [command |-> action, status |-> "error",
                                 error |-> Msg("Unknown action", action)])

(***************************************************************************)
(* The envelope.  on_received gets the transport's raw message; `malformed`*)
(* names the layer whose decoding raises ("none": data['message'], both    *)
(* json layers and device_exec decode, and device_exec is a dict).  The    *)
(* other fields are what device_exec holds: response_topic (None when the  *)
(* key is absent), the two flags (FALSE when absent) and sensor_command.   *)
(***************************************************************************)
Topics == {None, "", "reply/1"}

Layers == {"message", "payload", "device_exec"}

SensorCommands ==
    { Command("missing", None, None, None, EmptyPayload),
      Command("empty_dict", None, None, None, EmptyPayload),
      Command("str", None, None, None, EmptyPayload),
      DictCommand("read", "s1"),
      DictCommand("read", None),
      DictCommand("status", None),
      DictCommand("reboot", "s1"),
      DictCommand(None, "s1"),
      Command("dict", "execute", "s1", "toggle", EmptyPayload),
      Command("dict", "configure", "s1", None,
              [EmptyPayload EXCEPT !.keys = {"sensor_type"}, !.sensor_type = "bmp280"]),
      Command("dict", "configure", "s2", None,
              [EmptyPayload EXCEPT !.keys = {"enabled"}, !.enabled = FALSE]) }

Envelope(malformed, response_topic, update_rules, update_device, sensor_command) ==
    [malformed |-> malformed, response_topic |-> response_topic,
     update_rules |-> update_rules, update_device |-> update_device,
     sensor_command |-> sensor_command]

Envelopes ==
    { Envelope("none", t, ur, ud, sc) :
        t \in Topics, ur \in BOOLEAN, ud \in BOOLEAN, sc \in SensorCommands }
    \cup
    { Envelope(l, t, FALSE, FALSE, Command("missing", None, None, None, EmptyPayload)) :
        l \in Layers, t \in Topics }

NoEnvelope ==
    Envelope("none", None, FALSE, FALSE, Command("missing", None, None, None, EmptyPayload))

Decodes(e) == e.malformed = "none"

\* Python truthiness of the values the handler tests with `if`.
TruthyTopic(t) == t \notin {None, ""}

TruthyCommand(c) == c.py \in {"dict", "str"}

(***************************************************************************)
(* What the platform serves: a rule list of up to MaxRules rules, and the  *)
(* device record.                                                          *)
(***************************************************************************)
MaxRules == 1

RuleLists == { [i \in 1 .. n |-> [rule |-> i, action |-> i]] : n \in 0 .. MaxRules }

DeviceInfos == {"device-v1", "device-v2"}

(***************************************************************************)
(* What happened while on_received ran, in order.                          *)
(***************************************************************************)
Ev(kind) == [kind |-> kind]

\* utils.make_cmd(body, key_pair): the body wrapped with the device's signature.
Signed(body) == [cmd |-> body, sig |-> "device key"]

Reply(topic, signed) == [kind |-> "reply", topic |-> topic, message |-> signed]

SuccessBody == [info |-> "success"]

ErrorBody(error) == [info |-> "error", error |-> error]

\* The handler's progress: the client state so far, the events so far, and
\* whether control is running, has returned, or is unwinding an exception
\* ("raised": inside the inner try; "escaped": past the inner handler;
\* "propagated": out of on_received).
Running(r) == r.status = "running"

Log(r, ev) == [r EXCEPT !.events = Append(@, ev)]

Raise(r, error) == [r EXCEPT !.status = "raised", !.error = error]

Return(r) == IF Running(r) THEN [r EXCEPT !.status = "returned"] ELSE r

Range(seq) == {seq[i] : i \in DOMAIN seq}

Start(rl, di, reg) ==
    [rules |-> rl, device_info |-> di, reg |-> reg, saves |-> << >>,
     events |-> << >>, status |-> "running", error |-> None]

(***************************************************************************)
(* What the collaborators do during one on_received call.                  *)
(*   expiry, auth   auth.validate_expiry / auth.check_auth: "true",        *)
(*                  "false" or "raise"                                     *)
(*   rules, device  api.get_rules / api.get_device: raise, or the value    *)
(*   drivers        the drivers, the factory and the save hook             *)
(*   callback       the user callback: "return" or "raise"                 *)
(*   reply          utils.make_cmd + utils.sio_publish of the reply in the *)
(*                  try body: "sent", or one of the two raises             *)
(*   error_reply    the same for the reply in the inner except handler     *)
(* sio_publish either emits the message and returns, or raises without     *)
(* having emitted it.                                                      *)
(***************************************************************************)
CheckOutcomes == {"true", "false", "raise"}

SendOutcomes == {"sent", "sign_raises", "publish_raises"}

CallbackOutcomes == {"return", "raise"}

RulesFetches ==
    {[ok |-> FALSE, value |-> << >>]} \cup {[ok |-> TRUE, value |-> rl] : rl \in RuleLists}

DeviceFetches ==
    {[ok |-> FALSE, value |-> None]} \cup {[ok |-> TRUE, value |-> di] : di \in DeviceInfos}

Drivers(reads, exec, factory, hook) ==
    [reads |-> reads, exec |-> exec, factory |-> factory, hook |-> hook]

AllReadsOk == [i \in SensorIds |-> TRUE]

\* The outcomes that a command can meet: only the collaborators its action
\* reaches vary.
DriverOutcomes(sns, command) ==
    LET mk == [ok |-> TRUE, serial |-> 1]
    IN  IF command.py = "dict" /\ command.action = "read"
        THEN {Drivers(rds, "done", mk, "ok") :
                 rds \in {f \in [SensorIds -> BOOLEAN] :
                             \A i \in SensorIds :
                                (command.sensor_id \notin {None, i}) => f[i]}}
        ELSE IF command.py = "dict" /\ command.action = "execute"
        THEN {Drivers(AllReadsOk, ex, mk, "ok") : ex \in ExecOutcomes}
        ELSE IF command.py = "dict" /\ command.action = "configure"
        THEN {Drivers(AllReadsOk, "done", f, hk) :
                 f \in FactoryOutcomes(sns), hk \in HookOutcomes}
        ELSE {Drivers(AllReadsOk, "done", mk, "ok")}

Outcome(expiry, auth, rf, df, d, callback, reply, error_reply) ==
    [expiry |-> expiry, auth |-> auth, rules |-> rf, device |-> df, drivers |-> d,
     callback |-> callback, reply |-> reply, error_reply |-> error_reply]

NoOutcome ==
    Outcome("true", "true", [ok |-> TRUE, value |-> << >>],
            [ok |-> TRUE, value |-> "device-v1"],
            Drivers(AllReadsOk, "done", [ok |-> TRUE, serial |-> 1], "ok"),
            "return", "sent", "sent")

(***************************************************************************)
(* on_received, statement by statement.                                    *)
(***************************************************************************)
\* Lines 40-41, `validate_expiry(..) and check_auth(..)`: "pass", "fail", or
\* "raise" when the check that is evaluated raises.  The faulty variant accepts an
\* envelope that passes either check.
AuthCheck_Either(expiry, auth) ==
    IF expiry = "raise" THEN "raise"
    ELSE IF expiry = "true" THEN "pass"
    ELSE IF auth = "raise" THEN "raise"
    ELSE IF auth = "true" THEN "pass" ELSE "fail"

AuthCheck(expiry, auth) ==
    IF expiry = "raise" THEN "raise"
    ELSE IF expiry = "false" THEN "fail"
    ELSE IF auth = "raise" THEN "raise"
    ELSE IF auth = "true" THEN "pass" ELSE "fail"

\* Lines 116-118: the cache is assigned only after the fetch has returned.
\* The faulty variant empties the cache before it fetches.
update_rules_ClearsFirst(r, fetch) ==
    IF fetch.ok
    THEN Log([r EXCEPT !.rules = fetch.value], Ev("update_rules"))
    ELSE Raise([r EXCEPT !.rules = << >>], Msg("get_rules failed", None))

update_rules(r, fetch) ==
    IF fetch.ok
    THEN Log([r EXCEPT !.rules = fetch.value], Ev("update_rules"))
    ELSE Raise(r, Msg("get_rules failed", None))

\* Lines 120-122.
update_device(r, fetch) ==
    IF fetch.ok
    THEN Log([r EXCEPT !.device_info = fetch.value], Ev("update_device"))
    ELSE Raise(r, Msg("get_device failed", None))

\* signed = utils.make_cmd(body, key_pair); utils.sio_publish(sio, topic, signed)
SignAndPublish(r, topic, body, send) ==
    IF send = "sent"
    THEN Log(r, Reply(topic, Signed(body)))
    ELSE Raise(r, Msg(send, None))

\* Lines 49-54: the sensor command branch, ending in `return`.  The faulty variant
\* has lost the `return`: control falls through to the callback.
\* Line 50: process_sensor_command has run with result p.
Processed(r, p) ==
    IF p.raised
    THEN Raise(Log(r, [kind |-> "sensor_command", raised |-> TRUE]), p.error)
    ELSE Log([r EXCEPT !.reg = p.reg, !.saves = p.saves],
             [kind |-> "sensor_command", raised |-> FALSE, result |-> p.ret])

\* Lines 51-53: the result is published when there is a topic.
PublishResult(r, e, o, p) ==
    IF Running(r) /\ TruthyTopic(e.response_topic)
    THEN SignAndPublish(r, e.response_topic, p.ret, o.reply)
    ELSE r

SensorReply(r, e, o, p) == PublishResult(Processed(r, p), e, o, p)

SensorBranch_NoReturn(r, e, o) ==
    SensorReply(r, e, o, process_command(r.reg, e.sensor_command, o.drivers))

SensorBranch(r, e, o) ==
    Return(SensorReply(r, e, o, process_command(r.reg, e.sensor_command, o.drivers)))

\* Lines 56-61: the user callback, then the acknowledgment.  The faulty variant
\* acknowledges before it calls.
\* Line 57: self.caller(device_exec).
CallUser(r, o) ==
    IF ~Running(r) THEN r
    ELSE IF o.callback = "raise"
    THEN Raise(Log(r, Ev("callback")), Msg("callback failed", None))
    ELSE Log(r, Ev("callback"))

\* Lines 59-61: the acknowledgment.
Acknowledge(r, e, o) ==
    IF Running(r) /\ TruthyTopic(e.response_topic)
    THEN SignAndPublish(r, e.response_topic, SuccessBody, o.reply)
    ELSE r

CallbackBranch_AckFirst(r, e, o) == CallUser(Acknowledge(r, e, o), o)

CallbackBranch(r, e, o) == Acknowledge(CallUser(r, o), e, o)

\* Line 49, `if device_exec.get('sensor_command')`.  The faulty variant never takes
\* the sensor branch.
IsSensorCommand_Never(e) == FALSE

IsSensorCommand(e) == TruthyCommand(e.sensor_command)

\* Lines 43-61, the body of the inner try.
RefreshRules(r, e, o) ==
    IF Running(r) /\ e.update_rules THEN update_rules(r, o.rules) ELSE r

RefreshDevice(r, e, o) ==
    IF Running(r) /\ e.update_device THEN update_device(r, o.device) ELSE r

RouteSensor(r, e, o) ==
    IF Running(r) /\ IsSensorCommand(e) THEN SensorBranch(r, e, o) ELSE r

RouteCallback(r, e, o) ==
    IF Running(r) THEN CallbackBranch(r, e, o) ELSE r

\* The faulty variant routes first and refreshes afterwards.
TryBody_RoutesFirst(r, e, o) ==
    RefreshDevice(RefreshRules(RouteCallback(RouteSensor(r, e, o), e, o), e, o), e, o)

TryBody(r, e, o) ==
    RouteCallback(RouteSensor(RefreshDevice(RefreshRules(r, e, o), e, o), e, o), e, o)

\* Lines 62-67, the inner handler: an error reply when there is a topic,
\* then the log line.  An exception raised here escapes to the outer handler.
\* The faulty variant acknowledges success after the error reply.
InnerExcept_AlsoAcks(r, e, o) ==
    IF r.status # "raised" THEN r
    ELSE IF TruthyTopic(e.response_topic)
    THEN IF o.error_reply = "sent"
         THEN Log(Log(Log(r, Reply(e.response_topic, Signed(ErrorBody(r.error)))),
                      Reply(e.response_topic, Signed(SuccessBody))),
                  Ev("log_error"))
         ELSE [r EXCEPT !.status = "escaped", !.error = Msg(o.error_reply, None)]
    ELSE Log(r, Ev("log_error"))

InnerExcept(r, e, o) ==
    IF r.status # "raised" THEN r
    ELSE IF TruthyTopic(e.response_topic)
    THEN IF o.error_reply = "sent"
         THEN Log(Log(r, Reply(e.response_topic, Signed(ErrorBody(r.error)))),
                  Ev("log_error"))
         ELSE [r EXCEPT !.status = "escaped", !.error = Msg(o.error_reply, None)]
    ELSE Log(r, Ev("log_error"))

\* Lines 70-71, the outer handler: whatever escaped is logged.  The faulty variant
\* has no outer handler for what escapes the inner one.
OuterExcept_Propagates(r) ==
    IF r.status = "escaped" THEN [r EXCEPT !.status = "propagated"] ELSE r

OuterExcept(r) ==
    IF r.status = "escaped" THEN Log(r, Ev("log_error")) ELSE r

Escape(r, error) == [r EXCEPT !.status = "escaped", !.error = error]

\* Lines 35-71; r is the client state when the message arrives.
Handle(r, e, o, check) ==
    IF ~Decodes(e)
    THEN OuterExcept(Escape(r, Msg(e.malformed, None)))
    ELSE IF check = "raise"
    THEN OuterExcept(Escape(r, Msg("auth raised", None)))
    ELSE IF check = "pass"
    THEN OuterExcept(InnerExcept(TryBody(r, e, o), e, o))
    ELSE Log(r, Ev("log_warning"))

on_received(rl, di, reg, e, o) ==
    Handle(Start(rl, di, reg), e, o, AuthCheck(o.expiry, o.auth))

(***************************************************************************)
(* The registry driven through the client's sensor methods                 *)
(* (CyberflyClient.add_sensor ... load_sensor_configs).  `last` records    *)
(* the call that has just returned: its arguments, what the driver factory *)
(* did if it was called (factory_ok), the registry it started from, the    *)
(* returned value and the save-hook calls it made.                         *)
(***************************************************************************)
NoCall == [op |-> "none"]

\* device_manager.py:329, the seconds between two publishes.
publish_interval == 60

\* The loop iteration that made no publish attempt.  `after_failure` says
\* that the attempt before this one failed, `took` the seconds the publish call has been
\* running, `since` the seconds since the last publish call that succeeded
\* returned (capped like the clock), and `gap` what `since` was when the
\* latest successful publish call returned.
NoAttempt ==
    [made |-> FALSE, outcome |-> "none", logged |-> "none", after_failure |-> FALSE,
     took |-> 0, since |-> publish_interval, gap |-> publish_interval]

\* The device agent's main loop is not running (the client is used directly).
AgentOff ==
    /\ loop_pc = "off"
    /\ elapsed = 0
    /\ attempt = NoAttempt

Called(op, sensor_id, args, before, r) ==
    [op |-> op, sensor_id |-> sensor_id, args |-> args, before |-> before,
     ret |-> r.ret, saves |-> r.saves]

Commit(op, sensor_id, args, r) ==
    /\ sensors' = r.reg.sensors
    /\ sensor_configs' = r.reg.sensor_configs
    /\ last' = Called(op, sensor_id, args, Reg, r)
    /\ UNCHANGED <<config_save_hook, client_vars>>

Idle == pc = "idle" /\ last.op = "none"

SetConfigSaveHook ==
    /\ Idle
    /\ ~config_save_hook
    /\ config_save_hook' = TRUE
    /\ UNCHANGED <<sensors, sensor_configs, last, client_vars>>

AddSensorOf(ids) ==
    /\ Idle
    /\ \E sensor_id \in ids, config \in Configs, mk \in FactoryOutcomes(sensors) :
          Commit("add", sensor_id, [config |-> config, factory_ok |-> mk.ok],
                 add_sensor(Reg, sensor_id, config, mk))

AddSensor == AddSensorOf(SensorIds)

RemoveSensor ==
    /\ Idle
    /\ \E sensor_id \in SensorIds, hk \in HookOutcomes :
          Commit("remove", sensor_id, [none |-> TRUE], remove_sensor(Reg, sensor_id, hk))

EnableSensor ==
    /\ Idle
    /\ \E sensor_id \in SensorIds, mk \in FactoryOutcomes(sensors), hk \in HookOutcomes :
          Commit("enable", sensor_id, [factory_ok |-> mk.ok],
                 enable_sensor(Reg, sensor_id, mk, hk))

DisableSensor ==
    /\ Idle
    /\ \E sensor_id \in SensorIds, hk \in HookOutcomes :
          Commit("disable", sensor_id, [none |-> TRUE], disable_sensor(Reg, sensor_id, hk))

ConfigureSensor ==
    /\ Idle
    /\ \E sensor_id \in SensorIds, new_config \in Payloads,
           mk \in FactoryOutcomes(sensors), hk \in HookOutcomes :
          Commit("configure", sensor_id,
                 [new_config |-> new_config, factory_ok |-> mk.ok],
                 configure_sensor(Reg, sensor_id, new_config, mk, hk))

\* The caller takes the returned value; the observation is cleared.  A
\* load returns when its list is exhausted.
CallReturns ==
    /\ pc = "idle"
    /\ last.op # "none"
    /\ last.op = "load" => last.left = 0
    /\ last.op = "process_rules" => last.at = "done"
    /\ last' = NoCall
    /\ UNCHANGED <<sensors, sensor_configs, config_save_hook, client_vars>>

\* A call that may raise: `raised` says whether it did, and `ret` is then
\* the exception instead of the returned value.
Observed(op, sensor_id, args, before, r) ==
    [op |-> op, sensor_id |-> sensor_id, args |-> args, before |-> before,
     raised |-> r.raised, ret |-> IF r.raised THEN r.error ELSE r.ret,
     saves |-> IF r.raised THEN << >> ELSE r.saves]

Observe(op, sensor_id, args, r) ==
    /\ sensors' = r.reg.sensors
    /\ sensor_configs' = r.reg.sensor_configs
    /\ last' = Observed(op, sensor_id, args, Reg, r)
    /\ UNCHANGED <<config_save_hook, client_vars>>

\* CyberflyClient.read_sensor (main.py:158-161) -> SensorManager.read_sensor.
ReadSensor ==
    /\ Idle
    /\ \E sensor_id \in SensorIds, rd \in BOOLEAN :
          Observe("read", sensor_id, [read_ok |-> rd], read_sensor(Reg, sensor_id, rd))

\* CyberflyClient.get_sensor_status (main.py:172-174).
GetSensorStatusOf(ids) ==
    /\ Idle
    /\ \E sensor_id \in ids \cup {None} :
          Observe("status", sensor_id, [none |-> TRUE],
                  get_sensor_status(Reg, sensor_id))

GetSensorStatus == GetSensorStatusOf(SensorIds)

\* CyberflyClient.process_sensor_command (main.py:196-206) with a status
\* command, which reaches no driver.
StatusCommandOf(ids) ==
    /\ Idle
    /\ \E sensor_id \in ids \cup {None} :
          Observe("status_command", sensor_id, [none |-> TRUE],
                  process_command(Reg, DictCommand("status", sensor_id),
                                  NoOutcome.drivers))

StatusCommand == StatusCommandOf(SensorIds)

\* CyberflyClient.load_sensor_configs (main.py:184-194) is called with a
\* list of at most MaxLoad entries; nothing is loaded yet.
MaxLoad == 2

LoadSensorConfigs ==
    /\ Idle
    /\ \E n \in 0 .. MaxLoad :
          last' = [op |-> "load", sensor_id |-> None, args |-> [none |-> TRUE],
                   before |-> Reg, ret |-> << >>, saves |-> << >>, left |-> n]
    /\ UNCHANGED <<sensors, sensor_configs, config_save_hook, client_vars>>

\* One turn of the loop in load_sensor_configs: the next entry of the list
\* is built and added, and its id is appended to the returned list when
\* add_sensor returned True.  No other call runs between two turns.
LoadEntry ==
    /\ pc = "idle"
    /\ last.op = "load"
    /\ last.left > 0
    /\ \E config_dict \in LoadEntries, mk \in FactoryOutcomes(sensors) :
          LET r == load_entry(Reg, config_dict, mk)
          IN  /\ sensors' = r.reg.sensors
              /\ sensor_configs' = r.reg.sensor_configs
              /\ last' = [op |-> "load", sensor_id |-> config_dict.sensor_id,
                          args |-> [config_dict |-> config_dict, factory_ok |-> mk.ok],
                          before |-> Reg,
                          ret |-> IF r.ret THEN Append(last.ret, config_dict.sensor_id)
                                  ELSE last.ret,
                          saves |-> r.saves, left |-> last.left - 1]
    /\ UNCHANGED <<config_save_hook, client_vars>>

InitRegistry ==
    /\ sensors = EmptyDict
    /\ sensor_configs = EmptyDict
    /\ config_save_hook = FALSE
    /\ last = NoCall

\* CyberflyClient.__init__ (lines 22-32): the device record and the rules
\* are fetched before the handler is registered.
\* The socket after a successful connect and subscribe.
Subscribed == [connected |-> TRUE, subscribed |-> TRUE]

\* No registry call is in progress in any thread.
NoWriter == [op |-> "none", sensor_id |-> None, pending |-> << >>]

NoReader ==
    [call |-> "none", pc |-> "idle", size |-> 0, returned |-> 0, ahead |-> << >>,
     cur |-> None,
     readings |-> 0, raised |-> "none", orphan |-> FALSE, disabled_live |-> FALSE]

Quiet ==
    /\ writer = NoWriter
    /\ reader = NoReader

\* __init__ has run to its end (line 32).
Constructed ==
    /\ Quiet
    /\ init_pc = "registered"
    /\ stack = << >>
    /\ exc = FALSE
    /\ link = Subscribed
    /\ missed = FALSE
    /\ delivered = 0

InitClient ==
    /\ Constructed
    /\ rules \in RuleLists
    /\ device_info \in DeviceInfos
    /\ pc = "idle"
    /\ env = NoEnvelope
    /\ outcomes = NoOutcome
    /\ entry = Snapshot
    /\ events = << >>
    /\ prev_fault = FALSE

\* A client whose rules and device record do not matter to the registry.
InitClientFixed ==
    /\ InitClient
    /\ rules = << >>
    /\ device_info = "device-v1"

RegistryNext ==
    \/ SetConfigSaveHook
    \/ AddSensor
    \/ RemoveSensor
    \/ EnableSensor
    \/ DisableSensor
    \/ ConfigureSensor
    \/ LoadSensorConfigs
    \/ LoadEntry
    \/ ReadSensor
    \/ GetSensorStatus
    \/ StatusCommand
    \/ CallReturns

\* A fresh SensorManager inside a constructed client.
InitSensorManager ==
    /\ InitRegistry
    /\ InitClientFixed
    /\ AgentOff

SpecRegistry == InitSensorManager /\ [][RegistryNext]_vars

(***************************************************************************)
(* The status calls over every id the registry can store.  add_sensor      *)
(* (lines 73-103) stores whatever id it is given, and load_sensor_configs  *)
(* passes on the sensor_id of each stored dictionary, so the empty string  *)
(* is an id the tables can hold.                                           *)
(***************************************************************************)
StoredIds == {"", "s1"}

StoreSensor == AddSensorOf(StoredIds)

StatusOfStored == GetSensorStatusOf(StoredIds)

StatusCommandOfStored == StatusCommandOf(StoredIds)

StatusNext ==
    \/ StoreSensor
    \/ StatusOfStored
    \/ StatusCommandOfStored
    \/ CallReturns

SpecStatus == InitSensorManager /\ [][StatusNext]_vars

(***************************************************************************)
(* The dispatch loop: the transport calls on_received with one message at  *)
(* a time, and calls it again only after it has returned.                  *)
(***************************************************************************)
Authenticated(e, o) == Decodes(e) /\ AuthCheck(o.expiry, o.auth) = "pass"

\* The outcomes one envelope can meet.  A collaborator that the run cannot
\* reach keeps one harmless outcome, so that equal runs are one state.
Delivered(e, o, r) ==
    /\ rules' = r.rules
    /\ device_info' = r.device_info
    /\ sensors' = r.reg.sensors
    /\ sensor_configs' = r.reg.sensor_configs
    /\ env' = e
    /\ outcomes' = o
    /\ entry' = Snapshot
    /\ events' = r.events
    /\ pc' = IF r.status = "propagated" THEN "crashed" ELSE "returned"
    /\ UNCHANGED <<config_save_hook, last, prev_fault, agent_vars, startup_vars,
                   thread_vars>>

Reaches(e, o, status) == TryBody(Start(rules, device_info, Reg), e, o).status = status

Deliver(e, o) == Delivered(e, o, on_received(rules, device_info, Reg, e, o))

\* The transport calls on_received with one of the messages `envs`.
Receive(envs) ==
    /\ pc = "idle"
    /\ last.op = "none"
    /\ \E e \in envs :
        \E ex \in (IF Decodes(e) THEN CheckOutcomes ELSE {"true"}) :
        \E au \in (IF Decodes(e) /\ ex # "raise" THEN CheckOutcomes ELSE {"true"}) :
        LET authed == Decodes(e) /\ AuthCheck(ex, au) = "pass" IN
        \E rf \in (IF authed /\ e.update_rules THEN RulesFetches ELSE {NoOutcome.rules}) :
        \E df \in (IF authed /\ rf.ok /\ e.update_device
                    THEN DeviceFetches ELSE {NoOutcome.device}) :
        LET routed == authed /\ rf.ok /\ df.ok IN
        \E d \in (IF routed /\ IsSensorCommand(e)
                   THEN DriverOutcomes(sensors, e.sensor_command)
                   ELSE {NoOutcome.drivers}) :
        \E cb \in (IF routed /\ ~IsSensorCommand(e)
                    THEN CallbackOutcomes ELSE {"return"}) :
        \E rp \in (IF routed /\ TruthyTopic(e.response_topic) /\ cb = "return"
                    THEN SendOutcomes ELSE {"sent"}) :
        \E er \in (IF /\ authed
                       /\ TruthyTopic(e.response_topic)
                       /\ Reaches(e, Outcome(ex, au, rf, df, d, cb, rp, "sent"), "raised")
                    THEN SendOutcomes ELSE {"sent"}) :
            Deliver(e, Outcome(ex, au, rf, df, d, cb, rp, er))

OnReceived == Receive(Envelopes)

\* on_received has returned to the transport, which waits for the next
\* message.
TransportContinues ==
    /\ pc = "returned"
    /\ pc' = "idle"
    /\ prev_fault' = (Authenticated(env, outcomes) /\ Ev("callback") \in Range(events)
                      /\ outcomes.callback = "raise")
    /\ env' = NoEnvelope
    /\ outcomes' = NoOutcome
    /\ entry' = Snapshot
    /\ events' = << >>
    /\ UNCHANGED <<sensors, sensor_configs, config_save_hook, last, rules, device_info,
                   agent_vars, startup_vars, thread_vars>>

\* The sensors of sensor_config.json: one enabled and one disabled.
FileSensors ==
    << [sensor_id |-> "s1", config |-> SensorConfig("dht11", "{pin: 4}", TRUE, "porch")],
       [sensor_id |-> "s2", config |-> SensorConfig("bmp280", "{}", FALSE, None)] >>

\* load_sensor_configs, one turn of its loop (sensors.py:406-420): the n-th
\* stored sensor is added to the registry.
LoadFromFile(reg, n, mk) ==
    add_sensor(reg, FileSensors[n].sensor_id, FileSensors[n].config, mk).reg

\* run_device, lines 288-293: the sensors of sensor_config.json are loaded
\* into the new client; mk is what the driver factory does for the enabled
\* one.
LoadedFromFile(mk) ==
    LoadFromFile(LoadFromFile(Registry(EmptyDict, EmptyDict, FALSE), 1, mk), 2, mk)

\* The registry run_device has when its set-up is done: nothing loaded (no
\* file, or a file without sensors) or the file's sensors loaded, and in
\* every case the save hook installed (line 307).
RunDeviceRegistries ==
    { [reg EXCEPT !.hook = TRUE] :
        reg \in {Registry(EmptyDict, EmptyDict, FALSE)}
                \cup {LoadedFromFile(mk) : mk \in FactoryOutcomes(EmptyDict)} }

\* The registry the client has before the first message: that of a client
\* an application has just constructed (no sensors, no hook), or one that
\* run_device has set up.
InitialRegistries ==
    {Registry(EmptyDict, EmptyDict, FALSE)} \cup RunDeviceRegistries

Init ==
    /\ \E reg \in InitialRegistries :
          /\ sensors = reg.sensors
          /\ sensor_configs = reg.sensor_configs
          /\ config_save_hook = reg.hook
    /\ last = NoCall
    /\ InitClient
    /\ AgentOff

Next ==
    \/ OnReceived
    \/ TransportContinues

Spec == Init /\ [][Next]_vars


(***************************************************************************)
(* Two threads on one SensorManager, without locks: the dispatch thread    *)
(* runs a registry mutation (add, enable, disable, configure, remove) and  *)
(* the telemetry thread runs read_all_sensors or read_sensor.  Each        *)
(* mutation is the sequence of its statements that write a table, in the   *)
(* order the code executes them; the reader runs statement by statement    *)
(* in between.                                                             *)
(***************************************************************************)
NoConfig == SensorConfig("dht11", "{}", FALSE, None)

NoInstance == Instance("dht11", "{}", 1)

\* One table write.  `config` and `instance` are read only by the kinds that
\* store them.
Write(kind, sensor_id, config, instance) ==
    [kind |-> kind, sensor_id |-> sensor_id, config |-> config, instance |-> instance]

PutConfig(sensor_id, config) == Write("put_config", sensor_id, config, NoInstance)

PutInstance(sensor_id, instance) == Write("put_instance", sensor_id, NoConfig, instance)

DelConfig(sensor_id) == Write("del_config", sensor_id, NoConfig, NoInstance)

DelInstance(sensor_id) == Write("del_instance", sensor_id, NoConfig, NoInstance)

SetEnabled(sensor_id, flag) ==
    Write(IF flag THEN "set_enabled" ELSE "clear_enabled", sensor_id, NoConfig, NoInstance)

Execute(reg, w) ==
    CASE w.kind = "put_config" ->
            [reg EXCEPT !.sensor_configs = Put(@, w.sensor_id, w.config)]
      [] w.kind = "put_instance" ->
            [reg EXCEPT !.sensors = Put(@, w.sensor_id, w.instance)]
      [] w.kind = "del_config" ->
            [reg EXCEPT !.sensor_configs = Del(@, w.sensor_id)]
      [] w.kind = "del_instance" ->
            [reg EXCEPT !.sensors = Del(@, w.sensor_id)]
      [] w.kind = "set_enabled" ->
            [reg EXCEPT !.sensor_configs[w.sensor_id].enabled = TRUE]
      [] w.kind = "clear_enabled" ->
            [reg EXCEPT !.sensor_configs[w.sensor_id].enabled = FALSE]

If(cond, writes) == IF cond THEN writes ELSE << >>

\* add_sensor, lines 84-96: the disabled path stores the configuration and
\* then drops the instance; the enabled path stores the instance (line 95)
\* and then the configuration (line 96).
add_writes(reg, sensor_id, config, mk) ==
    IF ~config.enabled
    THEN <<PutConfig(sensor_id, config)>>
         \o If(sensor_id \in DOMAIN reg.sensors, <<DelInstance(sensor_id)>>)
    ELSE IF ~mk.ok
    THEN << >>
    ELSE <<PutInstance(sensor_id, Instance(config.sensor_type, config.inputs, mk.serial)),
           PutConfig(sensor_id, config)>>

\* remove_sensor, lines 116-119.
remove_writes(reg, sensor_id) ==
    If(sensor_id \in DOMAIN reg.sensors, <<DelInstance(sensor_id)>>)
    \o If(sensor_id \in DOMAIN reg.sensor_configs, <<DelConfig(sensor_id)>>)

\* enable_sensor, lines 320-323: the flag is set on the stored object, which
\* is then handed to add_sensor.
enable_writes(reg, sensor_id, mk) ==
    IF sensor_id \in DOMAIN reg.sensor_configs
    THEN <<SetEnabled(sensor_id, TRUE)>>
         \o add_writes(reg, sensor_id,
                       [reg.sensor_configs[sensor_id] EXCEPT !.enabled = TRUE], mk)
    ELSE << >>

\* disable_sensor, lines 331-334: the flag is cleared, then the instance
\* is dropped.
disable_writes(reg, sensor_id) ==
    IF sensor_id \in DOMAIN reg.sensor_configs
    THEN <<SetEnabled(sensor_id, FALSE)>>
         \o If(sensor_id \in DOMAIN reg.sensors, <<DelInstance(sensor_id)>>)
    ELSE << >>

\* configure_sensor, lines 368-378: the instance is dropped, the merged
\* configuration is added, and on failure the previous configuration and
\* instance are put back.
configure_writes(reg, sensor_id, new_config, mk) ==
    LET r == configure_sensor(reg, sensor_id, new_config, mk, "ok")
        drop == If(sensor_id \in DOMAIN reg.sensors, <<DelInstance(sensor_id)>>)
    IN  IF r.ret.status = "success"
        THEN drop \o add_writes([reg EXCEPT !.sensors = Del(@, sensor_id)],
                                sensor_id, r.ret.config, mk)
        ELSE IF r.ret.error = "Failed to configure sensor"
        THEN drop
             \o If(sensor_id \in DOMAIN reg.sensor_configs,
                   <<PutConfig(sensor_id, reg.sensor_configs[sensor_id])>>
                   \o If(sensor_id \in DOMAIN reg.sensors,
                         <<PutInstance(sensor_id, reg.sensors[sensor_id])>>))
        ELSE << >>

\* The configurations and payloads the dispatch thread works with here.
ThreadConfigs == {SensorConfig("dht11", "{}", enabled, None) : enabled \in BOOLEAN}

ThreadPayloads ==
    {[EmptyPayload EXCEPT !.keys = {"sensor_type"}, !.sensor_type = "bmp280"],
     [EmptyPayload EXCEPT !.keys = {"enabled"}, !.enabled = FALSE],
     [EmptyPayload EXCEPT !.keys = {"enabled"}, !.enabled = TRUE]}

(***************************************************************************)
(* The iteration of line 191 over the instance table, as CPython's dict    *)
(* iterator runs it.  The iterator notes the table's size when it is made, *)
(* counts the keys it has returned and walks the table's entries in the    *)
(* order of insertion.  `ahead` are the keys it has still to reach, in     *)
(* that order: a deleted key leaves it, and a key inserted anew (one       *)
(* deleted before and inserted again included) is appended, while a value  *)
(* stored under a key that is present changes no entry.  Each turn raises  *)
(* RuntimeError when the size differs from the noted one, ends the loop    *)
(* when no entry is ahead, raises RuntimeError when an entry is ahead      *)
(* though as many keys as the noted size were returned, and returns the    *)
(* next key otherwise.  An insertion that finds the table's spare entries  *)
(* used up rebuilds the table without the entries of deleted keys while    *)
(* the iterator keeps its index, so the iterator may find itself past any  *)
(* number of the keys that were ahead.  The tables here do not record the  *)
(* order of insertion nor the deleted entries: the iteration starts with   *)
(* any order of the keys, and an insertion may or may not rebuild.         *)
(***************************************************************************)
Orders(ids) ==
    {order \in [1 .. Cardinality(ids) -> ids] :
        \A i, j \in DOMAIN order : i # j => order[i] # order[j]}

Suffixes(keys) == {SubSeq(keys, i, Len(keys)) : i \in 1 .. Len(keys) + 1}

Iterating(r) == r.call = "read_all" /\ r.pc # "done"

Without(keys, sensor_id) == SelectSeq(keys, LAMBDA k : k # sensor_id)

\* What the write w on the registry reg does to the reader's iteration.
Seen(r, reg, w) ==
    IF ~Iterating(r) THEN {r}
    ELSE IF w.kind = "del_instance"
    THEN {[r EXCEPT !.ahead = Without(@, w.sensor_id)]}
    ELSE IF w.kind = "put_instance" /\ w.sensor_id \notin DOMAIN reg.sensors
    THEN {[r EXCEPT !.ahead = rest] : rest \in Suffixes(Append(r.ahead, w.sensor_id))}
    ELSE {r}

frame_of_threads == <<config_save_hook, last, rules, device_info, pc, env, outcomes,
                      entry, events, prev_fault, agent_vars, startup_vars>>

\* The dispatch thread enters a mutation.
Begin(op, sensor_id, writes) ==
    /\ writer' = [op |-> op, sensor_id |-> sensor_id, pending |-> writes]
    /\ UNCHANGED <<sensors, sensor_configs, reader, frame_of_threads>>

WriterAdds ==
    /\ writer.op = "none"
    /\ \E sensor_id \in SensorIds, config \in ThreadConfigs, mk \in FactoryOutcomes(sensors) :
          Begin("add", sensor_id, add_writes(Reg, sensor_id, config, mk))

WriterRemoves ==
    /\ writer.op = "none"
    /\ \E sensor_id \in SensorIds : Begin("remove", sensor_id, remove_writes(Reg, sensor_id))

WriterEnables ==
    /\ writer.op = "none"
    /\ \E sensor_id \in SensorIds, mk \in FactoryOutcomes(sensors) :
          Begin("enable", sensor_id, enable_writes(Reg, sensor_id, mk))

WriterDisables ==
    /\ writer.op = "none"
    /\ \E sensor_id \in SensorIds : Begin("disable", sensor_id, disable_writes(Reg, sensor_id))

Configures(ids) ==
    /\ writer.op = "none"
    /\ \E sensor_id \in ids, new_config \in ThreadPayloads,
           mk \in FactoryOutcomes(sensors) :
          Begin("configure", sensor_id, configure_writes(Reg, sensor_id, new_config, mk))

WriterConfigures == Configures(SensorIds)

\* The dispatch thread executes its next table write.
WriterStep ==
    /\ writer.op # "none"
    /\ writer.pending # << >>
    /\ sensors' = Execute(Reg, Head(writer.pending)).sensors
    /\ sensor_configs' = Execute(Reg, Head(writer.pending)).sensor_configs
    /\ writer' = [writer EXCEPT !.pending = Tail(@)]
    /\ reader' \in Seen(reader, Reg, Head(writer.pending))
    /\ UNCHANGED frame_of_threads

WriterReturns ==
    /\ writer.op # "none"
    /\ writer.pending = << >>
    /\ writer' = NoWriter
    /\ UNCHANGED <<sensors, sensor_configs, reader, frame_of_threads>>

\* The telemetry thread.  What the reader has noticed so far: an id in the
\* instance table without a configuration (orphan), a live instance whose
\* configuration is disabled (disabled_live), and the exception that ended
\* the call, if any.
Reads(r) ==
    /\ reader' = r
    /\ UNCHANGED <<sensors, sensor_configs, writer, frame_of_threads>>

Noticing(r) ==
    [r EXCEPT
       !.orphan = @ \/ \E i \in DOMAIN sensors : i \notin DOMAIN sensor_configs,
       !.disabled_live = @ \/ \E i \in DOMAIN sensors :
                                  /\ i \in DOMAIN sensor_configs
                                  /\ ~sensor_configs[i].enabled]

Raising(r, error) == [r EXCEPT !.pc = "done", !.raised = error]

\* One more reading is returned or appended (a reading with status error
\* is a reading too).
Reading(r) ==
    [r EXCEPT !.readings = @ + 1,
              !.pc = IF r.call = "read_all" THEN "iter" ELSE "done"]

\* read_all_sensors, line 191: the iterator over self.sensors is made.
ReadAllStarts ==
    /\ reader.call = "none"
    /\ loop_pc \in {"off", "publishing"}
    /\ \E order \in Orders(DOMAIN sensors) :
          Reads([NoReader EXCEPT !.call = "read_all", !.pc = "iter",
                                 !.size = Cardinality(DOMAIN sensors),
                                 !.ahead = order])

\* read_sensor(sensor_id) called on its own (CyberflyClient.read_sensor).
ReadSensorStarts ==
    /\ reader.call = "none"
    /\ loop_pc = "off"
    /\ \E sensor_id \in SensorIds :
          Reads([NoReader EXCEPT !.call = "read_sensor", !.pc = "member",
                                  !.cur = sensor_id])

\* Line 191, one turn of `for sensor_id in self.sensors`.
ReaderNext ==
    /\ reader.pc = "iter"
    /\ IF Cardinality(DOMAIN sensors) # reader.size
       THEN \* dictionary changed size during iteration
            Reads(Raising(reader, "RuntimeError"))
       ELSE IF reader.ahead = << >>
       THEN Reads([reader EXCEPT !.pc = "done"])
       ELSE IF reader.returned = reader.size
       THEN \* dictionary keys changed during iteration
            Reads(Raising(reader, "RuntimeError"))
       ELSE Reads([reader EXCEPT !.pc = "lookup", !.cur = Head(reader.ahead),
                                 !.ahead = Tail(@), !.returned = @ + 1])

\* Lines 192-193: config = self.sensor_configs[sensor_id]; if config.enabled.
ReaderLookup ==
    /\ reader.pc = "lookup"
    /\ IF reader.cur \notin DOMAIN sensor_configs
       THEN Reads(Raising(Noticing(reader), "KeyError"))
       ELSE IF sensor_configs[reader.cur].enabled
       THEN Reads([Noticing(reader) EXCEPT !.pc = "member"])
       ELSE Reads([Noticing(reader) EXCEPT !.pc = "iter"])

\* read_sensor, line 139: if sensor_id not in self.sensors.
ReaderMember ==
    /\ reader.pc = "member"
    /\ IF reader.cur \notin DOMAIN sensors
       THEN Reads(Reading(reader))
       ELSE Reads([reader EXCEPT !.pc = "config"])

\* read_sensor, lines 149-150: config = self.sensor_configs[sensor_id],
\* outside any try; if not config.enabled.
ReaderConfig ==
    /\ reader.pc = "config"
    /\ IF reader.cur \notin DOMAIN sensor_configs
       THEN Reads(Raising(Noticing(reader), "KeyError"))
       ELSE IF ~sensor_configs[reader.cur].enabled
       THEN Reads(Reading(Noticing(reader)))
       ELSE Reads([Noticing(reader) EXCEPT !.pc = "driver"])

\* read_sensor, lines 160-181: the instance is fetched and read inside the
\* try, so a missing instance or a failing driver gives an error reading.
ReaderDriver ==
    /\ reader.pc = "driver"
    /\ Reads(Reading(reader))

ReaderReturns ==
    /\ reader.pc = "done"
    /\ Reads(NoReader)

InitThreads ==
    /\ InitRegistry
    /\ InitClientFixed
    /\ AgentOff

ThreadsNext ==
    \/ WriterAdds
    \/ WriterRemoves
    \/ WriterEnables
    \/ WriterDisables
    \/ WriterConfigures
    \/ WriterStep
    \/ WriterReturns
    \/ ReadAllStarts
    \/ ReadSensorStarts
    \/ ReaderNext
    \/ ReaderLookup
    \/ ReaderMember
    \/ ReaderConfig
    \/ ReaderDriver
    \/ ReaderReturns

SpecThreads == InitThreads /\ [][ThreadsNext]_vars

(***************************************************************************)
(* Construction of the client (main.py, __init__, lines 11-32) and the     *)
(* reconnect logic (connect / subscribe, lines 73-86).  connect and        *)
(* subscribe retry by calling connect again, so every retry adds frames to *)
(* the Python stack; the interpreter raises RecursionError when a call     *)
(* would exceed its recursion limit (sys.getrecursionlimit(), 1000 by      *)
(* default, scaled down here).  A frame is named by where it stands:       *)
(*   connect.try       connect, about to call sio.connect (line 75)        *)
(*   connect.sub       connect, inside self.subscribe (line 76)            *)
(*   connect.except    connect, inside the retry self.connect() (line 79)  *)
(*   subscribe.try     subscribe, about to call sio.emit (line 83)         *)
(*   subscribe.except  subscribe, inside the retry self.connect() (line 86)*)
(***************************************************************************)
Top(stk) == stk[Len(stk)]

Pop(stk) == SubSeq(stk, 1, Len(stk) - 1)

Stacked(stk, raised) == [stack |-> stk, exc |-> raised]

\* A call made by the top frame, which then waits as `waiting` for `callee`:
\* the call raises RecursionError when the stack is full.
Call(stk, waiting, callee) ==
    IF Len(stk) < RecursionLimit
    THEN Stacked(Append(Append(Pop(stk), waiting), callee), FALSE)
    ELSE Stacked(stk, TRUE)

\* Lines 77-79 and 84-86: the except block of the top frame prints the error
\* and calls self.connect().  A RecursionError raised by that call is raised
\* inside the except block, so it leaves the frame.
Retry(stk, waiting) ==
    IF Call(stk, waiting, "connect.try").exc
    THEN Stacked(Pop(stk), TRUE)
    ELSE Call(stk, waiting, "connect.try")

\* Line 76: connect calls self.subscribe inside its try, so a RecursionError
\* raised by that call is caught on line 77.
CallSubscribe(stk) ==
    IF Call(stk, "connect.sub", "subscribe.try").exc
    THEN Retry(stk, "connect.except")
    ELSE Call(stk, "connect.sub", "subscribe.try")

Climb(r) ==
    /\ stack' = r.stack
    /\ exc' = r.exc

construct_frame == <<sensors, sensor_configs, config_save_hook, last,
                     pc, env, outcomes, entry, events, prev_fault, agent_vars,
                     delivered, thread_vars>>

\* What the platform serves while the client is constructed: the fetch
\* fails, or gives the device record and the rule list of that time.
FirstDeviceFetches == {fetch \in DeviceFetches : fetch.ok => fetch.value = "device-v1"}

FirstRulesFetches == {fetch \in RulesFetches : fetch.ok => fetch.value = << >>}

\* Line 29, self.update_device(): a fetch failure leaves __init__.
\* The faulty variant swallows the failure and goes on.
FetchDevice_GoesOn ==
    /\ init_pc = "new"
    /\ \E fetch \in FirstDeviceFetches :
          IF fetch.ok
          THEN device_info' = fetch.value /\ init_pc' = "device"
          ELSE device_info' = device_info /\ init_pc' = "device"
    /\ UNCHANGED <<construct_frame, rules, stack, exc, link, missed>>

FetchDevice ==
    /\ init_pc = "new"
    /\ \E fetch \in FirstDeviceFetches :
          IF fetch.ok
          THEN device_info' = fetch.value /\ init_pc' = "device"
          ELSE device_info' = device_info /\ init_pc' = "fetch_failed"
    /\ UNCHANGED <<construct_frame, rules, stack, exc, link, missed>>

\* Line 30, self.update_rules(), and the entry into self.connect() (line 31).
FetchRules ==
    /\ init_pc = "device"
    /\ \E fetch \in FirstRulesFetches :
          IF fetch.ok
          THEN rules' = fetch.value /\ init_pc' = "connect" /\ stack' = <<"connect.try">>
          ELSE rules' = rules /\ init_pc' = "fetch_failed" /\ stack' = stack
    /\ UNCHANGED <<construct_frame, device_info, exc, link, missed>>

\* Line 75, self.sio.connect(node_url): accepted, or raises.
SocketConnect ==
    /\ init_pc = "connect"
    /\ ~exc
    /\ stack # << >>
    /\ Top(stack) = "connect.try"
    /\ \E accepted \in BOOLEAN :
          IF accepted
          THEN /\ link' = [connected |-> TRUE, subscribed |-> FALSE]
               /\ Climb(CallSubscribe(stack))
          ELSE /\ link' = [link EXCEPT !.subscribed = FALSE]
               /\ Climb(Retry(stack, "connect.except"))
    /\ UNCHANGED <<construct_frame, rules, device_info, init_pc, missed>>

\* Line 83, self.sio.emit('subscribe', topic).  When it is accepted,
\* subscribe returns, and so does every frame below it: each one made its
\* call as the last statement of its block.
SubscribeEmit ==
    /\ init_pc = "connect"
    /\ ~exc
    /\ stack # << >>
    /\ Top(stack) = "subscribe.try"
    /\ \E accepted \in BOOLEAN :
          IF accepted
          THEN /\ link' = [link EXCEPT !.subscribed = TRUE]
               /\ stack' = << >>
               /\ exc' = FALSE
               /\ init_pc' = "connected"
          ELSE /\ link' = link
               /\ Climb(Retry(stack, "subscribe.except"))
               /\ init_pc' = init_pc
    /\ UNCHANGED <<construct_frame, rules, device_info, missed>>

\* A RecursionError reaches the top frame: a connect frame waiting inside
\* its try catches it and retries; a frame waiting inside its except block
\* lets it through.
Unwind ==
    /\ init_pc = "connect"
    /\ exc
    /\ stack # << >>
    /\ IF Top(stack) = "connect.sub"
       THEN Climb(Retry(stack, "connect.except"))
       ELSE Climb(Stacked(Pop(stack), TRUE))
    /\ UNCHANGED <<construct_frame, rules, device_info, init_pc, link, missed>>

\* The RecursionError leaves the outermost connect, and with it __init__.
ConnectRaises ==
    /\ init_pc = "connect"
    /\ exc
    /\ stack = << >>
    /\ init_pc' = "connect_raised"
    /\ UNCHANGED <<construct_frame, rules, device_info, stack, exc, link, missed>>

\* Line 32, self.sio.on("onmessage", self.on_received).
RegisterHandler ==
    /\ init_pc = "connected"
    /\ init_pc' = "registered"
    /\ UNCHANGED <<construct_frame, rules, device_info, stack, exc, link, missed>>

\* __init__ has returned with the handler registered.  run_device then
\* sets the client up in the main thread: load_sensor_configs adds the
\* stored sensors ("loading", then "loaded") and the save hook is installed
\* ("set_up"), after which the main loop starts.
Registered == init_pc \in {"registered", "loading", "loaded", "set_up"}

\* The handlers the socket holds for "onmessage": on_received from line 32
\* on, none before (line 14 creates the socket, and nothing else hands
\* on_received to it).
Handlers == IF Registered THEN {"on_received"} ELSE {}

\* The platform publishes on the device topic after the subscription and
\* before line 32.  The socket holds no reference to on_received yet, so
\* whatever it does with the message, it cannot call on_received now; the
\* step records that the message arrived.  Whether the socket discards the
\* message or keeps it is decided outside this repository: a message handed
\* over later is a HandlerEnters step, which draws any envelope.
MessageUnhandled ==
    /\ link.subscribed
    /\ Handlers = {}
    /\ ~missed
    /\ missed' = TRUE
    /\ UNCHANGED <<construct_frame, rules, device_info, init_pc, stack, exc, link>>

(***************************************************************************)
(* SensorManager calls followed access by access.  Two threads work on the *)
(* two tables without locks once the handler is registered: the main       *)
(* thread inside load_sensor_configs, and the transport's thread inside    *)
(* on_received.  The interpreter switches threads between bytecodes, so a  *)
(* step is one access to a table (a test, a lookup, a store, a delete, one *)
(* turn of an iterator) or one call of a collaborator, together with the   *)
(* statements around it that touch nothing shared.  An activation is the   *)
(* call in progress: `at` is its next step and the other fields are its    *)
(* local variables, named as in sensors.py.                                *)
(***************************************************************************)
NoIterator == [table |-> "none", size |-> 0, returned |-> 0, ahead |-> << >>]

\* The call has not returned yet.
NoResult == [command |-> "none"]

Activation(op, action, sensor_id, at) ==
    [op |-> op, action |-> action, sensor_id |-> sensor_id, at |-> at,
     execute_action |-> None, new_config |-> EmptyPayload, n |-> 0,
     cur |-> sensor_id, config |-> NoConfig,
     existed |-> FALSE, previous_config |-> NoConfig,
     had_sensor |-> FALSE, previous_sensor |-> NoInstance,
     updated_config |-> NoConfig, sensor |-> NoInstance, added |-> FALSE,
     it |-> NoIterator, readings |-> << >>, configs |-> EmptyDict,
     saves |-> << >>, ret |-> NoResult]

At(f, at) == [f EXCEPT !.at = at]

\* The call returns ret to on_received.
Finish(f, ret) ==
    [f EXCEPT !.at = "done", !.ret = ret, !.it = NoIterator, !.cur = None,
              !.config = NoConfig]

\* process_command, lines 522-529: an exception that leaves the called
\* method is caught and becomes the result.
Fails(f, error) == Finish(f, [command |-> f.action, status |-> "error", error |-> error])

\* One step: the activation and the registry after it, and the table write
\* it made, if any.
Goes(f, reg) == {[f |-> f, reg |-> reg, table |-> "none", kind |-> "none", key |-> None]}

Stores(f, reg, table, key, value) ==
    {[f |-> f,
      reg |-> IF table = "sensors"
              THEN [reg EXCEPT !.sensors = Put(@, key, value)]
              ELSE [reg EXCEPT !.sensor_configs = Put(@, key, value)],
      table |-> table, kind |-> "put", key |-> key]}

Deletes(f, reg, key) ==
    {[f |-> f, reg |-> [reg EXCEPT !.sensors = Del(@, key)],
      table |-> "sensors", kind |-> "del", key |-> key]}

Keys(reg, table) ==
    IF table = "sensors" THEN DOMAIN reg.sensors ELSE DOMAIN reg.sensor_configs

\* iter(table): the iterator notes the size; the order of the keys is not
\* recorded by the tables, so it is any.
MakeIterator(reg, table) ==
    {[table |-> table, size |-> Cardinality(Keys(reg, table)), returned |-> 0,
      ahead |-> order] : order \in Orders(Keys(reg, table))}

\* One turn of the iterator: what next() does.
Turn(it, reg) ==
    IF Cardinality(Keys(reg, it.table)) # it.size
    THEN "dictionary changed size during iteration"
    ELSE IF it.ahead = << >> THEN "end"
    ELSE IF it.returned = it.size THEN "dictionary keys changed during iteration"
    ELSE "next"

Taken(it) == [it EXCEPT !.ahead = Tail(@), !.returned = @ + 1]

\* What the step s of the other thread, made on the registry reg, does to
\* the iterator.
Moved(it, reg, s) ==
    IF it.table = "none" \/ it.table # s.table THEN {it}
    ELSE IF s.kind = "del" THEN {[it EXCEPT !.ahead = Without(@, s.key)]}
    ELSE IF s.key \notin Keys(reg, s.table)
    THEN {[it EXCEPT !.ahead = rest] : rest \in Suffixes(Append(it.ahead, s.key))}
    ELSE {it}

Disturbed(f, reg, s) ==
    IF f.op = "none" THEN {f} ELSE {[f EXCEPT !.it = it] : it \in Moved(f.it, reg, s)}

\* read_sensor has a reading: process_command returns it (lines 452-457),
\* or read_all_sensors appends it (line 195).
GotReading(f, reading) ==
    IF f.it.table = "sensors"
    THEN [f EXCEPT !.readings = Append(@, reading), !.at = "read_all.next",
                   !.config = NoConfig, !.cur = None]
    ELSE Finish(f, [command |-> "read", sensor_id |-> f.sensor_id, result |-> reading])

\* read_sensor(cur), lines 139-181.  The instance is fetched and read inside
\* the try (lines 160-162), so a missing instance gives an error reading.
read_sensor_step(f, reg) ==
    CASE f.at = "read.member" ->
            \* line 139
            IF f.cur \notin DOMAIN reg.sensors
            THEN Goes(GotReading(f, SensorReading(f.cur, "unknown", "{}", "error",
                                                  Msg("Sensor not found", f.cur))), reg)
            ELSE Goes(At(f, "read.config"), reg)
      [] f.at = "read.config" ->
            \* lines 149-150
            IF f.cur \notin DOMAIN reg.sensor_configs
            THEN Goes(Fails(f, Msg("KeyError", f.cur)), reg)
            ELSE IF ~reg.sensor_configs[f.cur].enabled
            THEN Goes(GotReading(f, SensorReading(f.cur,
                                                  reg.sensor_configs[f.cur].sensor_type,
                                                  "{}", "error",
                                                  Msg("Sensor is disabled", f.cur))), reg)
            ELSE Goes([f EXCEPT !.at = "read.driver",
                                !.config = reg.sensor_configs[f.cur]], reg)
      [] f.at = "read.driver" ->
            \* lines 161-162
            IF f.cur \notin DOMAIN reg.sensors
            THEN Goes(GotReading(f, SensorReading(f.cur, f.config.sensor_type, "{}",
                                                  "error", Msg("KeyError", f.cur))), reg)
            ELSE Goes(GotReading(f, SensorReading(f.cur, f.config.sensor_type,
                                                  "{driver data}", "success",
                                                  Msg(None, None))), reg)
                 \cup
                 Goes(GotReading(f, SensorReading(f.cur, f.config.sensor_type, "{}",
                                                  "error",
                                                  Msg("driver read failed", None))), reg)

\* read_all_sensors, lines 190-196.
read_all_sensors_step(f, reg) ==
    CASE f.at = "read_all.iter" ->
            \* line 191, the iterator is made
            UNION {Goes([f EXCEPT !.it = it, !.at = "read_all.next"], reg) :
                      it \in MakeIterator(reg, "sensors")}
      [] f.at = "read_all.next" ->
            \* line 191, one turn of the loop
            IF Turn(f.it, reg) = "end"
            THEN Goes(Finish(f, [command |-> "read_all", result |-> f.readings,
                                 count |-> Len(f.readings)]), reg)
            ELSE IF Turn(f.it, reg) = "next"
            THEN Goes([f EXCEPT !.cur = Head(f.it.ahead), !.it = Taken(@),
                                !.at = "read_all.config"], reg)
            ELSE Goes(Fails(f, Msg(Turn(f.it, reg), None)), reg)
      [] f.at = "read_all.config" ->
            \* lines 192-193
            IF f.cur \notin DOMAIN reg.sensor_configs
            THEN Goes(Fails(f, Msg("KeyError", f.cur)), reg)
            ELSE IF reg.sensor_configs[f.cur].enabled
            THEN Goes(At(f, "read.member"), reg)
            ELSE Goes(At(f, "read_all.next"), reg)

\* process_command, lines 478-485: the result of execute_sensor_action.
Executed(f, result) ==
    Finish(f, [command |-> "execute", sensor_id |-> f.sensor_id,
               execute_action |-> f.execute_action, result |-> result])

\* execute_sensor_action, lines 212-267.
execute_sensor_action_step(f, reg) ==
    CASE f.at = "execute.member" ->
            \* line 212
            IF f.cur \notin DOMAIN reg.sensors
            THEN Goes(Executed(f, [status |-> "error",
                                   error |-> Msg("Sensor not found", f.cur)]), reg)
            ELSE Goes(At(f, "execute.config"), reg)
      [] f.at = "execute.config" ->
            \* lines 219-220
            IF f.cur \notin DOMAIN reg.sensor_configs
            THEN Goes(Fails(f, Msg("KeyError", f.cur)), reg)
            ELSE IF ~reg.sensor_configs[f.cur].enabled
            THEN Goes(Executed(f, [status |-> "error",
                                   error |-> Msg("Sensor is disabled", f.cur)]), reg)
            ELSE Goes(At(f, "execute.driver"), reg)
      [] f.at = "execute.driver" ->
            \* lines 227-267: the instance is fetched and driven inside the try
            IF f.cur \notin DOMAIN reg.sensors
            THEN Goes(Executed(f, [status |-> "error", error |-> Msg("KeyError", f.cur)]),
                      reg)
            ELSE UNION {Goes(Executed(f,
                                 IF f.execute_action \in KnownVerbs /\ ex = "done"
                                 THEN [status |-> "success", action |-> f.execute_action]
                                 ELSE IF f.execute_action \notin KnownVerbs
                                         \/ ex = "unsupported"
                                 THEN [status |-> "error",
                                       error |-> Msg("Action not supported", f.cur)]
                                 ELSE [status |-> "error",
                                       error |-> Msg("driver action failed", None)]), reg) :
                           ex \in ExecOutcomes}

\* get_sensor_status(cur) has the status of one sensor: process_command
\* returns it (lines 488-494), or the loop of line 308 appends it.
GotStatus(f, status) ==
    IF f.it.table = "sensor_configs"
    THEN [f EXCEPT !.readings = Append(@, status), !.at = "status_all.next",
                   !.config = NoConfig, !.cur = None]
    ELSE Finish(f, [command |-> "status", sensor_id |-> f.sensor_id, result |-> status])

\* get_sensor_status, lines 285-317.  The ids stored here are never falsy
\* (the stored sensors' and those of configure commands, which line 497
\* refuses without an id), so the call of line 309 is one for a single
\* sensor.
get_sensor_status_step(f, reg) ==
    CASE f.at = "status.member" ->
            \* line 286
            IF f.cur \notin DOMAIN reg.sensor_configs
            THEN Goes(GotStatus(f, [status |-> "error",
                                    error |-> Msg("Sensor not found", f.cur)]), reg)
            ELSE Goes(At(f, "status.config"), reg)
      [] f.at = "status.config" ->
            \* line 293
            IF f.cur \notin DOMAIN reg.sensor_configs
            THEN Goes(Fails(f, Msg("KeyError", f.cur)), reg)
            ELSE Goes([f EXCEPT !.at = "status.exists",
                                !.config = reg.sensor_configs[f.cur]], reg)
      [] f.at = "status.exists" ->
            \* lines 294-304
            Goes(GotStatus(f, [sensor_id |-> f.cur, sensor_type |-> f.config.sensor_type,
                               enabled |-> f.config.enabled, alias |-> f.config.alias,
                               inputs |-> f.config.inputs,
                               initialized |-> f.cur \in DOMAIN reg.sensors]), reg)
      [] f.at = "status_all.iter" ->
            \* line 308, the iterator is made
            UNION {Goes([f EXCEPT !.it = it, !.at = "status_all.next"], reg) :
                      it \in MakeIterator(reg, "sensor_configs")}
      [] f.at = "status_all.next" ->
            \* line 308, one turn of the loop
            IF Turn(f.it, reg) = "end"
            THEN Goes([f EXCEPT !.it = NoIterator, !.at = "status_all.len"], reg)
            ELSE IF Turn(f.it, reg) = "next"
            THEN Goes([f EXCEPT !.cur = Head(f.it.ahead), !.it = Taken(@),
                                !.at = "status.member"], reg)
            ELSE Goes(Fails(f, Msg(Turn(f.it, reg), None)), reg)
      [] f.at = "status_all.len" ->
            \* lines 312-316
            Goes(Finish(f, [command |-> "status", sensor_id |-> f.sensor_id,
                            result |-> [total_sensors |->
                                            Cardinality(DOMAIN reg.sensor_configs),
                                        sensors |-> f.readings]]), reg)

\* process_command, lines 505-511: the result of configure_sensor.
Configured(f, result) ==
    Finish(f, [command |-> "configure", sensor_id |-> f.sensor_id, result |-> result])

\* add_sensor has returned `added`: to load_sensor_configs (line 415), or
\* to configure_sensor, lines 371-385.
Added(f, added) ==
    IF f.op = "add_sensor" THEN [f EXCEPT !.at = "add.return", !.added = added]
    ELSE IF ~added /\ f.updated_config.enabled
    THEN IF f.existed THEN At(f, "rollback.config")
         ELSE Configured(f, ConfigureError("Failed to configure sensor"))
    ELSE At(f, "persist.hook")

\* Line 84, `if not config.enabled`: where add_sensor(config) starts.
AddEntry(config) == IF config.enabled THEN "add.factory" ELSE "add.store"

\* add_sensor(updated_config), lines 84-103.
add_sensor_step(f, reg) ==
    CASE f.at = "add.store" ->
            \* line 86
            Stores(At(f, "add.check"), reg, "sensor_configs", f.sensor_id,
                   f.updated_config)
      [] f.at = "add.check" ->
            \* line 87
            IF f.sensor_id \in DOMAIN reg.sensors
            THEN Goes(At(f, "add.del"), reg)
            ELSE Goes(Added(f, TRUE), reg)
      [] f.at = "add.del" ->
            \* line 88; a KeyError is caught on line 101
            IF f.sensor_id \in DOMAIN reg.sensors
            THEN Deletes(Added(f, TRUE), reg, f.sensor_id)
            ELSE Goes(Added(f, FALSE), reg)
      [] f.at = "add.factory" ->
            \* lines 92-93; what the factory raises is caught on line 101
            LET alive == IF f.had_sensor
                         THEN Put(reg.sensors, f.sensor_id, f.previous_sensor)
                         ELSE reg.sensors
            IN  Goes(Added(f, FALSE), reg)
                \cup
                Goes([f EXCEPT !.at = "add.instance",
                               !.sensor = Instance(f.updated_config.sensor_type,
                                                   f.updated_config.inputs,
                                                   FreshSerial(alive))], reg)
      [] f.at = "add.instance" ->
            \* line 95
            Stores(At(f, "add.config"), reg, "sensors", f.sensor_id, f.sensor)
      [] f.at = "add.config" ->
            \* line 96
            Stores(Added(f, TRUE), reg, "sensor_configs", f.sensor_id, f.updated_config)

\* Lines 344-362: each field from the payload, else from the stored
\* configuration, else the default.
updated_config(existed, existing_config, new_config) ==
    SensorConfig(IF "sensor_type" \in new_config.keys /\ Truthy(new_config.sensor_type)
                 THEN new_config.sensor_type
                 ELSE IF existed THEN existing_config.sensor_type ELSE None,
                 IF "inputs" \in new_config.keys THEN new_config.inputs
                 ELSE IF existed THEN existing_config.inputs ELSE "{}",
                 IF "enabled" \in new_config.keys THEN new_config.enabled
                 ELSE IF existed THEN existing_config.enabled ELSE TRUE,
                 IF "alias" \in new_config.keys THEN new_config.alias
                 ELSE IF existed THEN existing_config.alias ELSE None)

\* configure_sensor, lines 343-392, and _persist_configs, lines 50-56.
configure_sensor_step(f, reg) ==
    CASE f.at = "configure.existing" ->
            \* lines 343-362
            LET existed == f.sensor_id \in DOMAIN reg.sensor_configs
                existing_config == IF existed THEN reg.sensor_configs[f.sensor_id]
                                   ELSE NoConfig
                updated == updated_config(existed, existing_config, f.new_config)
            IN  IF ~Truthy(updated.sensor_type)
                THEN Goes(Configured(f, ConfigureError(
                              "sensor_type is required when creating a new sensor")), reg)
                ELSE Goes([f EXCEPT !.at = "configure.previous", !.existed = existed,
                                    !.previous_config = existing_config,
                                    !.updated_config = updated], reg)
      [] f.at = "configure.previous" ->
            \* line 365
            IF f.sensor_id \in DOMAIN reg.sensors
            THEN Goes([f EXCEPT !.at = "configure.check", !.had_sensor = TRUE,
                                !.previous_sensor = reg.sensors[f.sensor_id]], reg)
            ELSE Goes(At(f, "configure.check"), reg)
      [] f.at = "configure.check" ->
            \* line 368
            IF f.sensor_id \in DOMAIN reg.sensors
            THEN Goes(At(f, "configure.del"), reg)
            ELSE Goes(At(f, AddEntry(f.updated_config)), reg)
      [] f.at = "configure.del" ->
            \* line 369, outside any try of configure_sensor
            IF f.sensor_id \in DOMAIN reg.sensors
            THEN Deletes(At(f, AddEntry(f.updated_config)), reg, f.sensor_id)
            ELSE Goes(Fails(f, Msg("KeyError", f.sensor_id)), reg)
      [] f.at = "rollback.config" ->
            \* lines 375-377
            Stores(IF f.had_sensor THEN At(f, "rollback.instance")
                   ELSE Configured(f, ConfigureError("Failed to configure sensor")),
                   reg, "sensor_configs", f.sensor_id, f.previous_config)
      [] f.at = "rollback.instance" ->
            \* line 378
            Stores(Configured(f, ConfigureError("Failed to configure sensor")),
                   reg, "sensors", f.sensor_id, f.previous_sensor)
      [] f.at = "persist.hook" ->
            \* line 51
            IF reg.hook THEN Goes(At(f, "persist.iter"), reg)
            ELSE Goes(Configured(f, ConfigureSuccess(f.sensor_id, f.updated_config)), reg)
      [] f.at = "persist.iter" ->
            \* line 53, the iterator over the values is made
            UNION {Goes([f EXCEPT !.it = it, !.at = "persist.next"], reg) :
                      it \in MakeIterator(reg, "sensor_configs")}
      [] f.at = "persist.next" ->
            \* line 53, one turn of the comprehension; what the iterator
            \* raises is caught on line 55
            IF Turn(f.it, reg) = "end"
            THEN Goes([f EXCEPT !.it = NoIterator, !.at = "persist.call"], reg)
            ELSE IF Turn(f.it, reg) = "next"
            THEN Goes([f EXCEPT !.it = Taken(@),
                                !.configs = Put(@, Head(f.it.ahead),
                                                reg.sensor_configs[Head(f.it.ahead)])],
                      reg)
            ELSE Goes(Configured(f, ConfigureSuccess(f.sensor_id, f.updated_config)),
                      reg)
      [] f.at = "persist.call" ->
            \* line 54; what the hook raises is caught on line 55
            UNION {Goes([Configured(f, ConfigureSuccess(f.sensor_id, f.updated_config))
                            EXCEPT !.saves = <<[configs |-> f.configs, outcome |-> hk]>>],
                        reg) : hk \in HookOutcomes}

ReadSteps == {"read.member", "read.config", "read.driver"}

ReadAllSteps == {"read_all.iter", "read_all.next", "read_all.config"}

ExecuteSteps == {"execute.member", "execute.config", "execute.driver"}

StatusSteps == {"status.member", "status.config", "status.exists",
                "status_all.iter", "status_all.next", "status_all.len"}

AddSteps == {"add.store", "add.check", "add.del", "add.factory", "add.instance",
             "add.config"}

\* The next step of the activation f on the registry reg.
process_command_step(f, reg) ==
    IF f.at \in ReadSteps THEN read_sensor_step(f, reg)
    ELSE IF f.at \in ReadAllSteps THEN read_all_sensors_step(f, reg)
    ELSE IF f.at \in ExecuteSteps THEN execute_sensor_action_step(f, reg)
    ELSE IF f.at \in StatusSteps THEN get_sensor_status_step(f, reg)
    ELSE IF f.at \in AddSteps THEN add_sensor_step(f, reg)
    ELSE configure_sensor_step(f, reg)

\* process_command, lines 444-448 and the tests of lines 450-503: the
\* commands that end without a call into the tables.
Tableless(command) ==
    \/ command.py # "dict"
    \/ command.action \notin {"read", "execute", "status", "configure"}
    \/ command.action \in {"execute", "configure"} /\ ~Truthy(command.sensor_id)

\* process_command(command) is entered: the method it calls first.
Entered(command) ==
    LET call(at) == Activation("process_command", command.action, command.sensor_id, at)
    IN  CASE command.action = "read" ->
                IF Truthy(command.sensor_id) THEN call("read.member")
                ELSE call("read_all.iter")
          [] command.action = "status" ->
                IF Truthy(command.sensor_id) THEN call("status.member")
                ELSE call("status_all.iter")
          [] command.action = "execute" ->
                [call("execute.member") EXCEPT
                    !.execute_action = IF command.verb = None THEN "read"
                                       ELSE command.verb]
          [] command.action = "configure" ->
                [call("configure.existing") EXCEPT !.new_config = command.config]

(***************************************************************************)
(* on_received in the transport's thread, statement by statement.  The     *)
(* statements that touch nothing another thread touches are one step with  *)
(* the access before them: what an exception's handlers do (lines 62-71),  *)
(* the replies, the user callback.                                         *)
(***************************************************************************)
\* The messages that arrive while the application starts: at most
\* MaxDelivered of them are followed.
MaxDelivered == 2

NoCommand == Command("missing", None, None, None, EmptyPayload)

\* The sensor commands among them: every action, for one sensor and for
\* all, and the two commands that end without a call into the tables.
StartupCommands ==
    { Command("str", None, None, None, EmptyPayload),
      DictCommand("reboot", "s1"),
      DictCommand("read", "s1"),
      DictCommand("read", None),
      DictCommand("status", "s2"),
      DictCommand("status", None),
      Command("dict", "execute", "s1", "toggle", EmptyPayload),
      Command("dict", "configure", "s1", None,
              [EmptyPayload EXCEPT !.keys = {"sensor_type"}, !.sensor_type = "bmp280"]),
      Command("dict", "configure", "s2", None,
              [EmptyPayload EXCEPT !.keys = {"sensor_type"}, !.sensor_type = "bmp280"]) }

\* A message for the user callback, with and without a topic and the
\* refresh flags; each sensor command with a topic; a status and a read of
\* all sensors after the refreshes; one message that does not decode.
StartupEnvelopes ==
    { Envelope("none", t, refresh, refresh, NoCommand) :
        t \in {None, "reply/1"}, refresh \in BOOLEAN }
    \cup
    { Envelope("none", "reply/1", FALSE, FALSE, sc) : sc \in StartupCommands }
    \cup
    { Envelope("none", "reply/1", TRUE, TRUE, DictCommand(action, None)) :
        action \in {"status", "read"} }
    \cup
    { Envelope("message", None, FALSE, FALSE, NoCommand) }

\* The handler's progress so far, as the record its statements work on.
Progress == [Start(rules, device_info, Reg) EXCEPT !.events = events]

\* Lines 62-71: the handlers of what the try body raised.
Caught(r, e, o) == OuterExcept(InnerExcept(r, e, o))

\* The statement after the authentication, and after line 45.
AfterRules(e) == IF e.update_device THEN "device" ELSE "route"

AfterAuth(e) == IF e.update_rules THEN "rules" ELSE AfterRules(e)

\* The handler goes on at `at`, or has ended.
HandlerAt(r, o, at) ==
    /\ rules' = r.rules
    /\ device_info' = r.device_info
    /\ events' = r.events
    /\ outcomes' = o
    /\ pc' = IF Running(r) THEN at
             ELSE IF r.status = "propagated" THEN "crashed" ELSE "returned"

handler_frame == <<sensors, sensor_configs, config_save_hook, prev_fault, agent_vars,
                   init_pc, stack, exc, link, missed, thread_vars>>

\* Lines 35-41: the socket calls the handler it holds; the envelope is
\* decoded and authenticated against self.device_info.
HandlerEnters ==
    /\ link.subscribed
    /\ "on_received" \in Handlers
    /\ pc = "idle"
    /\ delivered < MaxDelivered
    /\ delivered' = delivered + 1
    /\ \E e \in StartupEnvelopes :
       \E ex \in (IF Decodes(e) THEN CheckOutcomes ELSE {"true"}) :
       \E au \in (IF Decodes(e) /\ ex = "true" THEN CheckOutcomes ELSE {"true"}) :
          LET o == [NoOutcome EXCEPT !.expiry = ex, !.auth = au]
              r == Start(rules, device_info, Reg)
          IN  /\ env' = e
              /\ entry' = Snapshot
              /\ IF ~Decodes(e)
                 THEN HandlerAt(OuterExcept(Escape(r, Msg(e.malformed, None))), o, "idle")
                 ELSE IF AuthCheck(ex, au) = "raise"
                 THEN HandlerAt(OuterExcept(Escape(r, Msg("auth raised", None))), o, "idle")
                 ELSE IF AuthCheck(ex, au) = "pass"
                 THEN HandlerAt(r, o, AfterAuth(e))
                 ELSE HandlerAt(Return(Log(r, Ev("log_warning"))), o, "idle")
    /\ UNCHANGED <<last, handler_frame>>

\* The error reply of line 66 is attempted when the try body raised and
\* there is a topic.
ErrorReplies(r, e) ==
    IF r.status = "raised" /\ TruthyTopic(e.response_topic) THEN SendOutcomes ELSE {"sent"}

\* Lines 44-45: the rules are fetched and assigned.
HandlerRefreshesRules ==
    /\ pc = "rules"
    /\ \E rf \in RulesFetches :
       \E er \in ErrorReplies(RefreshRules(Progress, env, [outcomes EXCEPT !.rules = rf]),
                              env) :
          LET o == [outcomes EXCEPT !.rules = rf, !.error_reply = er]
          IN  HandlerAt(Caught(RefreshRules(Progress, env, o), env, o), o, AfterRules(env))
    /\ UNCHANGED <<last, env, entry, delivered, handler_frame>>

\* Lines 46-47: the device record is fetched and assigned.
HandlerRefreshesDevice ==
    /\ pc = "device"
    /\ \E df \in DeviceFetches :
       \E er \in ErrorReplies(RefreshDevice(Progress, env, [outcomes EXCEPT !.device = df]),
                              env) :
          LET o == [outcomes EXCEPT !.device = df, !.error_reply = er]
          IN  HandlerAt(Caught(RefreshDevice(Progress, env, o), env, o), o, "route")
    /\ UNCHANGED <<last, env, entry, delivered, handler_frame>>

\* Lines 49-50 and 57-61: a sensor command enters process_command; without
\* one the user callback is called and acknowledged.  A command that ends
\* without a call into the tables is answered in the same step.
HandlerRoutes ==
    /\ pc = "route"
    /\ IF IsSensorCommand(env) /\ ~Tableless(env.sensor_command)
       THEN /\ last' = Entered(env.sensor_command)
            /\ pc' = "sensor"
            /\ UNCHANGED <<rules, device_info, events, outcomes>>
       ELSE /\ \E cb \in (IF IsSensorCommand(env) THEN {"return"} ELSE CallbackOutcomes) :
               \E rp \in (IF TruthyTopic(env.response_topic) /\ cb = "return"
                          THEN SendOutcomes ELSE {"sent"}) :
               \E er \in ErrorReplies(
                            RouteCallback(RouteSensor(Progress, env,
                                [outcomes EXCEPT !.callback = cb, !.reply = rp]), env,
                                [outcomes EXCEPT !.callback = cb, !.reply = rp]), env) :
                  LET o == [outcomes EXCEPT !.callback = cb, !.reply = rp,
                                            !.error_reply = er]
                  IN  HandlerAt(Return(Caught(RouteCallback(RouteSensor(Progress, env, o),
                                                            env, o), env, o)), o, "idle")
            /\ last' = last
    /\ UNCHANGED <<env, entry, delivered, handler_frame>>

\* One step of the sensor command in progress.
HandlerSteps ==
    /\ pc = "sensor"
    /\ last.at # "done"
    /\ \E s \in process_command_step(last, Reg) :
          /\ sensors' = s.reg.sensors
          /\ sensor_configs' = s.reg.sensor_configs
          /\ last' = s.f
    /\ UNCHANGED <<config_save_hook, rules, device_info, pc, env, outcomes, entry,
                   events, prev_fault, agent_vars, startup_vars, thread_vars>>

\* Lines 50-54: process_sensor_command has returned; the result is signed
\* and published when there is a topic, and on_received returns.
HandlerReplies ==
    /\ pc = "sensor"
    /\ last.at = "done"
    /\ \E rp \in (IF TruthyTopic(env.response_topic) THEN SendOutcomes ELSE {"sent"}) :
       \E er \in (IF rp = "sent" THEN {"sent"} ELSE SendOutcomes) :
          LET o == [outcomes EXCEPT !.reply = rp, !.error_reply = er]
              p == ReturnedSaving(Reg, last.ret, last.saves)
          IN  HandlerAt(Return(Caught(SensorReply(Progress, env, o, p), env, o)), o,
                        "idle")
    /\ last' = NoCall
    /\ UNCHANGED <<env, entry, delivered, handler_frame>>

(***************************************************************************)
(* run_device in the main thread, lines 288-307, while the transport may   *)
(* already deliver.                                                        *)
(***************************************************************************)
\* load_sensor_configs, lines 406-415: the n-th stored sensor is handed to
\* add_sensor.
Adding(n) ==
    [Activation("add_sensor", "load", FileSensors[n].sensor_id,
                AddEntry(FileSensors[n].config))
        EXCEPT !.updated_config = FileSensors[n].config, !.n = n]

loader_frame == <<config_save_hook, rules, device_info, pc, env, outcomes, entry,
                  events, prev_fault, agent_vars, stack, exc, link, missed, delivered,
                  reader>>

\* Lines 288-293: sensor_config.json exists and lists the stored sensors.
LoadBegins ==
    /\ init_pc = "registered"
    /\ init_pc' = "loading"
    /\ writer' = Adding(1)
    /\ UNCHANGED <<sensors, sensor_configs, last, loader_frame>>

\* One step of add_sensor in the main thread.
LoaderSteps ==
    /\ init_pc = "loading"
    /\ writer.at # "add.return"
    /\ \E s \in add_sensor_step(writer, Reg) :
          /\ sensors' = s.reg.sensors
          /\ sensor_configs' = s.reg.sensor_configs
          /\ writer' = s.f
          /\ last' \in Disturbed(last, Reg, s)
    /\ UNCHANGED <<init_pc, loader_frame>>

\* Lines 415-416 and 406: add_sensor has returned; the loop goes on to the
\* next stored sensor, or load_sensor_configs returns.
LoaderNext ==
    /\ init_pc = "loading"
    /\ writer.at = "add.return"
    /\ IF writer.n < Len(FileSensors)
       THEN writer' = Adding(writer.n + 1) /\ init_pc' = init_pc
       ELSE writer' = NoWriter /\ init_pc' = "loaded"
    /\ UNCHANGED <<sensors, sensor_configs, last, loader_frame>>

\* Lines 295-296: there is no sensor_config.json, or it lists no sensor.
NoStoredSensors ==
    /\ init_pc = "registered"
    /\ init_pc' = "loaded"
    /\ UNCHANGED <<sensors, sensor_configs, last, writer, loader_frame>>

\* Line 307, client.sensor_manager.set_config_save_hook(save_sensor_configs).
InstallSaveHook ==
    /\ init_pc = "loaded"
    /\ config_save_hook' = TRUE
    /\ init_pc' = "set_up"
    /\ UNCHANGED <<sensors, sensor_configs, last, rules, device_info, pc, env, outcomes,
                   entry, events, prev_fault, agent_vars, stack, exc, link, missed,
                   delivered, thread_vars>>

\* Lines 13-27: the attributes before the first fetch; line 26 creates the
\* sensor manager, empty.
InitConstruct ==
    /\ sensors = EmptyDict
    /\ sensor_configs = EmptyDict
    /\ config_save_hook = FALSE
    /\ last = NoCall
    /\ AgentOff
    /\ rules = << >>
    /\ device_info = "{}"
    /\ pc = "idle"
    /\ env = NoEnvelope
    /\ outcomes = NoOutcome
    /\ entry = Snapshot
    /\ events = << >>
    /\ prev_fault = FALSE
    /\ init_pc = "new"
    /\ stack = << >>
    /\ exc = FALSE
    /\ link = [connected |-> FALSE, subscribed |-> FALSE]
    /\ missed = FALSE
    /\ delivered = 0
    /\ Quiet

StartupNext ==
    \/ FetchDevice
    \/ FetchRules
    \/ SocketConnect
    \/ SubscribeEmit
    \/ Unwind
    \/ ConnectRaises
    \/ RegisterHandler
    \/ MessageUnhandled
    \/ LoadBegins
    \/ LoaderSteps
    \/ LoaderNext
    \/ NoStoredSensors
    \/ InstallSaveHook
    \/ HandlerEnters
    \/ HandlerRefreshesRules
    \/ HandlerRefreshesDevice
    \/ HandlerRoutes
    \/ HandlerSteps
    \/ HandlerReplies
    \/ TransportContinues

SpecStartup == InitConstruct /\ [][StartupNext]_vars


(***************************************************************************)
(* The device agent's main loop (device_manager.py, run_device, lines      *)
(* 328-347): once a second it looks at the clock, and when publish_interval*)
(* seconds have passed since last_publish it publishes all sensor          *)
(* readings.  The clock is kept as the whole seconds since last_publish,   *)
(* capped at publish_interval.  Time passes in the time.sleep(1) of an     *)
(* iteration and while the publish call runs (its drivers and its socket   *)
(* take time).  The transport's thread runs on_received meanwhile; with a  *)
(* configure command this is configure_sensor, which writes the two tables *)
(* one statement at a time.                                                *)
(***************************************************************************)
\* The longest a publish call takes, in whole seconds.
MaxPublishSeconds == 1

\* The sensor the platform's configure commands name while the loop runs.
CommandIds == {"s1"}

dispatch_vars == <<rules, device_info, pc, env, outcomes, entry, events, prev_fault>>

\* CyberflyClient.publish_all_sensor_readings (main.py:220-234): read all
\* enabled sensors, then sign and publish the aggregate on the device topic.
publish_all_sensor_readings(reg, rds, send) ==
    LET r == read_all_sensors(reg, rds)
    IN  IF r.raised
        THEN [reg |-> r.reg, raised |-> TRUE, error |-> r.error]
        ELSE IF send # "sent"
        THEN [reg |-> r.reg, raised |-> TRUE, error |-> Msg(send, None)]
        ELSE [reg |-> r.reg, raised |-> FALSE, saves |-> r.saves,
              ret |-> Signed([device_id |-> "device", sensors |-> r.ret,
                                    count |-> Cardinality(DOMAIN r.ret)])]

\* The clock one second later.
Tick(e) == IF e + 1 > publish_interval THEN publish_interval ELSE e + 1

\* Where the main loop stands while it runs: at the top of an iteration
\* (line 332), inside the publish call (337), at its return, after the
\* info line (338), or before the sleep (343).
LoopRunning == {"loop", "publishing", "attempted", "logged", "sleeping"}

\* The record of the publish attempt an iteration has just begun, given the
\* record of the iteration before it: the call has not returned ("pending")
\* and nothing is logged.
Started(previous) ==
    [previous EXCEPT !.made = TRUE, !.outcome = "pending", !.logged = "none",
                     !.after_failure = previous.logged = "error", !.took = 0]

\* The record of an iteration that does not attempt.
NotDue(previous) == [NoAttempt EXCEPT !.since = previous.since, !.gap = previous.gap]

\* The attempt when the publish call has returned or raised (r).
Attempted(started, r) ==
    IF r.raised
    THEN [started EXCEPT !.outcome = r.error.text]
    ELSE [started EXCEPT !.outcome = "published", !.gap = started.since, !.since = 0]

\* Lines 332-335, the top of one iteration of `while True`; a is the loop's
\* state.  When the interval has elapsed the publish call is entered;
\* otherwise the iteration goes to its sleep.
loop_iteration(a) ==
    IF a.elapsed >= publish_interval
    THEN [a EXCEPT !.pc = "publishing", !.attempt = Started(a.attempt)]
    ELSE [a EXCEPT !.pc = "sleeping", !.attempt = NotDue(a.attempt)]

\* One second passes.
passes(a) == [a EXCEPT !.elapsed = Tick(@), !.attempt.since = Tick(@)]

\* Line 337 returns or raises; r is what the call did.
publish_returns(a, r) ==
    [a EXCEPT !.pc = "attempted", !.attempt = Attempted(a.attempt, r)]

\* Lines 338 and 340-341: after a publish the info line; after an exception
\* the error line of the handler, which leaves last_publish as it was.
\* The faulty variant has no `except Exception` around the publish.
log_attempt_NoCatch(a) ==
    IF a.attempt.outcome = "published"
    THEN [a EXCEPT !.pc = "logged", !.attempt.logged = "info"]
    ELSE [a EXCEPT !.pc = "crashed"]

\* The faulty variant advances last_publish whatever the publish did, so
\* that a failed publish is retried only after a full interval.
log_attempt_StampsAlways(a) ==
    IF a.attempt.outcome = "published"
    THEN [a EXCEPT !.pc = "logged", !.attempt.logged = "info"]
    ELSE [a EXCEPT !.pc = "logged", !.attempt.logged = "error"]

log_attempt(a) ==
    IF a.attempt.outcome = "published"
    THEN [a EXCEPT !.pc = "logged", !.attempt.logged = "info"]
    ELSE [a EXCEPT !.pc = "sleeping", !.attempt.logged = "error"]

\* Line 339, `last_publish = current_time`: current_time was read on line
\* 332, before the publish call, so the clock stands at what the call took.
stamp_last_publish(a) == [a EXCEPT !.pc = "sleeping", !.elapsed = a.attempt.took]

\* Line 343, `time.sleep(1)`, and back to the top of the loop.
sleep(a) == [passes(a) EXCEPT !.pc = "loop"]

Loop == [pc |-> loop_pc, elapsed |-> elapsed, attempt |-> attempt]

Looped(a) ==
    /\ loop_pc' = a.pc
    /\ elapsed' = a.elapsed
    /\ attempt' = a.attempt
    /\ UNCHANGED <<sensors, sensor_configs, config_save_hook, last, dispatch_vars,
                   startup_vars, writer>>

LoopIteration ==
    /\ loop_pc = "loop"
    /\ Looped(loop_iteration(Loop))
    /\ UNCHANGED reader

\* The publish call is running and a second passes.
PublishTakesTime ==
    /\ loop_pc = "publishing"
    /\ attempt.took < MaxPublishSeconds
    /\ Looped([passes(Loop) EXCEPT !.attempt.took = @ + 1])
    /\ UNCHANGED reader

\* main.py:226, readings = self.read_all_sensors(), statement by statement.
PublishReads ==
    /\ loop_pc = "publishing"
    /\ \/ ReadAllStarts
       \/ ReaderNext
       \/ ReaderLookup
       \/ ReaderMember
       \/ ReaderConfig
       \/ ReaderDriver

\* What read_all_sensors gave the publish call.
ReadAll(r) ==
    IF r.raised # "none"
    THEN Raised(Reg, Msg(r.raised, None))
    ELSE Returned(Reg, r.readings)

\* Lines 227-233 of main.py: the aggregate is signed and published, or the
\* exception of read_all_sensors, of make_cmd or of the socket leaves the
\* call.
PublishReturns ==
    /\ loop_pc = "publishing"
    /\ reader.call = "read_all"
    /\ reader.pc = "done"
    /\ \E send \in SendOutcomes :
          /\ ReadAll(reader).raised => send = "sent"
          /\ Looped(publish_returns(Loop,
                                    IF ReadAll(reader).raised \/ send = "sent"
                                    THEN ReadAll(reader)
                                    ELSE Raised(Reg, Msg(send, None))))
    /\ reader' = NoReader

LogAttempt ==
    /\ loop_pc = "attempted"
    /\ Looped(log_attempt(Loop))
    /\ UNCHANGED reader

StampLastPublish ==
    /\ loop_pc = "logged"
    /\ Looped(stamp_last_publish(Loop))
    /\ UNCHANGED reader

Sleep ==
    /\ loop_pc = "sleeping"
    /\ Looped(sleep(Loop))
    /\ UNCHANGED reader

\* KeyboardInterrupt (lines 345-347) ends the loop wherever it stands; it is
\* no Exception, so inside the publish call no handler on the way catches it.
\* run_device's clock and the iteration of the publish call go with its
\* frame; what the last attempt did stays on record.
Interrupt ==
    /\ loop_pc \in LoopRunning
    /\ loop_pc' = "interrupted"
    /\ elapsed' = 0
    /\ reader' = NoReader
    /\ UNCHANGED <<sensors, sensor_configs, config_save_hook, last, dispatch_vars,
                   startup_vars, writer, attempt>>

\* The transport's thread runs on_received (main.py:34-71) with a configure
\* command while the main loop is anywhere, inside the publish call
\* included: process_command calls configure_sensor, whose table writes are
\* the steps of the handler (the driver factory and the save hook run
\* between and after them).
HandlerConfigures ==
    /\ loop_pc \in LoopRunning
    /\ Configures(CommandIds)

\* run_device up to the loop: the client is constructed, the stored sensors
\* are loaded, and last_publish is set to the current time.
InitAgent ==
    /\ \E reg \in RunDeviceRegistries :
          /\ sensors = reg.sensors
          /\ sensor_configs = reg.sensor_configs
          /\ config_save_hook = reg.hook
    /\ last = NoCall
    /\ InitClient
    /\ loop_pc = "loop"
    /\ elapsed = 0
    /\ attempt = NoAttempt

AgentNext ==
    \/ LoopIteration
    \/ PublishTakesTime
    \/ PublishReads
    \/ PublishReturns
    \/ LogAttempt
    \/ StampLastPublish
    \/ Sleep
    \/ Interrupt
    \/ HandlerConfigures
    \/ WriterStep
    \/ WriterReturns

\* The loop keeps running for as long as the process is not interrupted.
SpecAgent ==
    /\ InitAgent
    /\ [][AgentNext]_vars
    /\ WF_vars(LoopIteration)
    /\ WF_vars(PublishReads)
    /\ WF_vars(PublishReturns)
    /\ WF_vars(LogAttempt)
    /\ WF_vars(StampLastPublish)
    /\ WF_vars(Sleep)

(***************************************************************************)
(* Rule evaluation (main.py, process_rules, lines 100-111), called by the  *)
(* application with a data record.  rule_engine and utils are              *)
(* collaborators: what building a rule, matching it against the data and   *)
(* publishing its action do is an input of the call, one outcome per       *)
(* position of the list that is iterated.                                  *)
(*   publish         the rule matches and its action is published          *)
(*   no_match        the rule does not match                               *)
(*   match_raises    rul.matches raises (caught on line 110)               *)
(*   publish_raises  utils.publish raises (caught on line 110)             *)
(*   build_raises    utils.make_rule / rule_engine.Rule raises (line 106,  *)
(*                   outside the try): the exception leaves process_rules  *)
(***************************************************************************)
MaxCached == 2

RuleIds == {1, 2}

CachedRules ==
    UNION { [1 .. n -> {[rule |-> i, action |-> i] : i \in RuleIds}] : n \in 0 .. MaxCached }

CachedFetches ==
    {[ok |-> FALSE, value |-> << >>]} \cup {[ok |-> TRUE, value |-> rl] : rl \in CachedRules}

RuleOutcomes == {"publish", "no_match", "match_raises", "publish_raises", "build_raises"}

NotFetched == [ok |-> TRUE, value |-> << >>, called |-> FALSE]

Fetched(fetch) == [ok |-> fetch.ok, value |-> fetch.value, called |-> TRUE]

\* The process_rules call in flight.  `at` is the statement it stands
\* before, `local` the list its local name `rules` is bound to, `i` the
\* position of the loop, `outs` what building, matching and publishing do
\* for the data of this call at each position, `fetch` what api.get_rules
\* returned to this call.
RulesCall(at, local, outs, fetch, i, published, raised) ==
    [op |-> "process_rules", at |-> at, local |-> local, outs |-> outs,
     fetch |-> fetch, i |-> i, published |-> published, raised |-> raised]

\* Lines 101-102: `rules = self.rules`, then the test of len(rules).
bind_rules(cache, outs) ==
    RulesCall(IF Len(cache) = 0 THEN "refresh" ELSE "loop",
              cache, outs, NotFetched, 1, << >>, FALSE)

Refreshed(call, cache) == [call |-> call, rules |-> cache]

\* Line 103, self.update_rules(): api.get_rules returns or raises (line
\* 117), and line 118 rebinds self.rules; the local name still holds the
\* list from before.  The faulty variant rebinds the local name too.
refresh_rules_RebindsLocal(call, cache, fetch) ==
    IF fetch.ok
    THEN Refreshed([call EXCEPT !.at = "loop", !.fetch = Fetched(fetch),
                                !.local = fetch.value],
                   fetch.value)
    ELSE Refreshed([call EXCEPT !.at = "done", !.fetch = Fetched(fetch),
                                !.raised = TRUE],
                   cache)

refresh_rules(call, cache, fetch) ==
    IF fetch.ok
    THEN Refreshed([call EXCEPT !.at = "loop", !.fetch = Fetched(fetch)], fetch.value)
    ELSE Refreshed([call EXCEPT !.at = "done", !.fetch = Fetched(fetch),
                                !.raised = TRUE],
                   cache)

\* Lines 105-111, one turn of the loop over the local list: the rule at
\* position i is built, matched and, when it matches, its action published.
evaluate_rule(call) ==
    IF call.i > Len(call.local)
    THEN [call EXCEPT !.at = "done"]
    ELSE IF call.outs[call.i] = "build_raises"
    THEN [call EXCEPT !.at = "done", !.raised = TRUE]
    ELSE IF call.outs[call.i] = "publish"
    THEN [call EXCEPT !.i = @ + 1,
                      !.published = Append(@, call.local[call.i].action)]
    ELSE [call EXCEPT !.i = @ + 1]

rules_frame == <<sensors, sensor_configs, config_save_hook, device_info, pc, env,
                 outcomes, entry, events, prev_fault, agent_vars, startup_vars,
                 thread_vars>>

InRules(at) == pc = "idle" /\ last.op = "process_rules" /\ last.at = at

\* The application calls client.process_rules(data) (lines 101-102).
ProcessRules ==
    /\ Idle
    /\ \E outs \in [1 .. MaxCached -> RuleOutcomes] :
          last' = bind_rules(rules, outs)
    /\ UNCHANGED <<rules, rules_frame>>

\* Line 103: the call waits for the fetch and rebinds the cache.
RefreshesCache ==
    /\ InRules("refresh")
    /\ \E fetch \in CachedFetches :
          LET r == refresh_rules(last, rules, fetch)
          IN  /\ last' = r.call
              /\ rules' = r.rules
    /\ UNCHANGED rules_frame

\* Lines 105-111: one turn of the loop; building, matching and publishing
\* wait on the collaborators, so the transport's thread runs in between.
EvaluateRule ==
    /\ InRules("loop")
    /\ last' = evaluate_rule(last)
    /\ UNCHANGED <<rules, rules_frame>>

\* The platform asks for a rule refresh (on_received, lines 43-44) on the
\* transport's thread, whatever the application's thread is doing: line 118
\* rebinds the cache to what the fetch of line 117 returned.  A fetch that
\* raises assigns nothing.
UpdateRules ==
    /\ pc = "idle"
    /\ last.op \in {"none", "process_rules"}
    /\ \E fetch \in CachedFetches :
          /\ fetch.ok
          /\ rules' = fetch.value
    /\ UNCHANGED <<last, rules_frame>>

InitRules ==
    /\ InitRegistry
    /\ InitClientFixed
    /\ AgentOff

RulesNext ==
    \/ ProcessRules
    \/ RefreshesCache
    \/ EvaluateRule
    \/ UpdateRules
    \/ CallReturns

SpecRules == InitRules /\ [][RulesNext]_vars

(***************************************************************************)
(* The operations that only read the registry, called one at a time on a   *)
(* client whose sensors are set up, between enable, disable and remove     *)
(* calls that move the registry through its states.                        *)
(***************************************************************************)
\* Two actions that execute_sensor_action knows and one that it does not.
Verbs == {"toggle", "clear", "read"}

\* CyberflyClient.read_all_sensors (main.py:163-166).
ReadAllSensors ==
    /\ Idle
    /\ \E rds \in [SensorIds -> BOOLEAN] :
          Observe("read_all", None, [reads |-> rds], read_all_sensors(Reg, rds))

\* CyberflyClient.execute_sensor_action (main.py:168-170).
ExecuteSensorAction ==
    /\ Idle
    /\ \E sensor_id \in SensorIds, verb \in Verbs, ex \in ExecOutcomes :
          Observe("execute", sensor_id, [verb |-> verb, exec |-> ex],
                  execute_sensor_action(Reg, sensor_id, verb, ex))

\* process_sensor_command with a read command, for one sensor or for all.
ReadCommand ==
    /\ Idle
    /\ \E sensor_id \in SensorIds \cup {None}, rds \in [SensorIds -> BOOLEAN] :
          Observe("read_command", sensor_id, [reads |-> rds],
                  process_command(Reg, DictCommand("read", sensor_id),
                                  Drivers(rds, "done", NoOutcome.drivers.factory, "ok")))

\* process_sensor_command with an execute command; the verb is None when
\* params names no execute_action.
ExecuteCommand ==
    /\ Idle
    /\ \E sensor_id \in SensorIds \cup {None}, verb \in Verbs \cup {None},
           ex \in ExecOutcomes :
          Observe("execute_command", sensor_id, [verb |-> verb, exec |-> ex],
                  process_command(Reg, Command("dict", "execute", sensor_id, verb,
                                               EmptyPayload),
                                  Drivers(AllReadsOk, ex, NoOutcome.drivers.factory, "ok")))

\* CyberflyClient.publish_all_sensor_readings (main.py:220-234).
PublishAllSensorReadings ==
    /\ Idle
    /\ \E rds \in [SensorIds -> BOOLEAN], send \in SendOutcomes :
          Observe("publish_all", None, [reads |-> rds, send |-> send],
                  publish_all_sensor_readings(Reg, rds, send))

InitReads ==
    /\ \E reg \in InitialRegistries :
          /\ sensors = reg.sensors
          /\ sensor_configs = reg.sensor_configs
          /\ config_save_hook = reg.hook
    /\ last = NoCall
    /\ InitClientFixed
    /\ AgentOff

ReadsNext ==
    \/ ReadSensor
    \/ ReadAllSensors
    \/ ExecuteSensorAction
    \/ GetSensorStatus
    \/ ReadCommand
    \/ ExecuteCommand
    \/ StatusCommand
    \/ PublishAllSensorReadings
    \/ EnableSensor
    \/ DisableSensor
    \/ RemoveSensor
    \/ CallReturns

SpecReads == InitReads /\ [][ReadsNext]_vars

(***************************************************************************)
(* Claims about the sensor registry (checked under SpecRegistry)           *)
(***************************************************************************)
RegisteredDisabled(reg, sensor_id) ==
    /\ sensor_id \in DOMAIN reg.sensor_configs
    /\ ~reg.sensor_configs[sensor_id].enabled
    /\ sensor_id \notin DOMAIN reg.sensors

Absent(reg, sensor_id) ==
    /\ sensor_id \notin DOMAIN reg.sensor_configs
    /\ sensor_id \notin DOMAIN reg.sensors

\* enable_sensor has just returned after the factory raised, on a sensor that
\* was registered-disabled when it was called.
EnableFailedOnDisabled ==
    /\ last.op = "enable"
    /\ RegisteredDisabled(last.before, last.sensor_id)
    /\ ~last.args.factory_ok

\* C4 (P4, sensor lifecycle atomicity): when enable_sensor is called on a
\* registered-disabled sensor and the driver instantiation fails, the call
\* returns False and the sensor is still registered-disabled (enabled = false
\* in the stored configuration, no live instance); when the id is not
\* configured the call returns False and the id stays absent.
C4_EnableFailureLeavesDisabled ==
    /\ EnableFailedOnDisabled =>
          /\ last.ret = FALSE
          /\ RegisteredDisabled(Reg, last.sensor_id)
    /\ (last.op = "enable" /\ Absent(last.before, last.sensor_id)) =>
          /\ last.ret = FALSE
          /\ Absent(Reg, last.sensor_id)

\* configure_sensor has just returned from a call on an existing enabled
\* sensor (configuration enabled, live instance) whose resulting
\* configuration is enabled and whose instantiation failed.
ConfigureFailedOnEnabled ==
    /\ last.op = "configure"
    /\ last.sensor_id \in DOMAIN last.before.sensors
    /\ last.sensor_id \in DOMAIN last.before.sensor_configs
    /\ last.before.sensor_configs[last.sensor_id].enabled
    /\ ("enabled" \in last.args.new_config.keys => last.args.new_config.enabled)
    /\ ~last.args.factory_ok

\* C5 (P5, configure rollback): after configure_sensor on an existing enabled
\* sensor whose resulting configuration is enabled and fails to instantiate,
\* the call reports status error, and both tables are exactly what they were
\* before the call: the same configuration and the same instance for that id,
\* and every other sensor untouched.
C5_ConfigureRollback ==
    ConfigureFailedOnEnabled =>
        /\ last.ret.status = "error"
        /\ sensor_configs = last.before.sensor_configs
        /\ sensors = last.before.sensors

\* Witness of C5: the rollback happened on a sensor that has a neighbour, and
\* the payload asked for a different type.
C5_Witness ==
    /\ ConfigureFailedOnEnabled
    /\ DOMAIN last.before.sensors = SensorIds
    /\ "sensor_type" \in last.args.new_config.keys
    /\ last.args.new_config.sensor_type #
          last.before.sensor_configs[last.sensor_id].sensor_type
    /\ sensors = last.before.sensors

\* read_sensor has just returned or raised.
ReadCalled == last.op = "read"

\* C11 as stated: a read never raises; an absent id, a disabled sensor and a
\* driver read failure each give status error with a text naming that cause
\* (not found, disabled, the driver's failure), and a successful driver read
\* gives status success.
C11_AsStated ==
    ReadCalled =>
        /\ ~last.raised
        /\ Absent(last.before, last.sensor_id) =>
              /\ last.ret.status = "error"
              /\ last.ret.error = Msg("Sensor not found", last.sensor_id)
        /\ RegisteredDisabled(last.before, last.sensor_id) =>
              /\ last.ret.status = "error"
              /\ last.ret.error = Msg("Sensor is disabled", last.sensor_id)

\* C11 (read never raises): in every reachable registry state read_sensor
\* returns a reading and does not raise, and changes neither table.  When no
\* live instance exists for the id (absent, or registered but disabled) the
\* reading has status error and the text "Sensor <id> not found"; when the
\* driver's read raises it has status error and the driver's message; when
\* the driver's read succeeds on an enabled sensor it has status success.
C11_ReadNeverRaises ==
    ReadCalled =>
        /\ ~last.raised
        /\ last.ret.sensor_id = last.sensor_id
        /\ Reg = last.before
        /\ last.sensor_id \notin DOMAIN last.before.sensors =>
              /\ last.ret.status = "error"
              /\ last.ret.error = Msg("Sensor not found", last.sensor_id)
        /\ (last.sensor_id \in DOMAIN last.before.sensors /\ ~last.args.read_ok) =>
              /\ last.ret.status = "error"
              /\ last.ret.error = Msg("driver read failed", None)
        /\ (last.sensor_id \in DOMAIN last.before.sensors /\ last.args.read_ok) =>
              /\ last.before.sensor_configs[last.sensor_id].enabled
              /\ last.ret.status = "success"

\* Witness of C11: a read of a registered-disabled sensor next to an enabled
\* one, answered "not found".
C11_Witness ==
    /\ ReadCalled
    /\ RegisteredDisabled(last.before, last.sensor_id)
    /\ DOMAIN last.before.sensors # {}
    /\ last.ret.status = "error"
    /\ last.ret.error.sensor_id = last.sensor_id

\* disable_sensor has just returned.
DisableCalled == last.op = "disable"

\* What disable_sensor leaves behind, and what a read finds while the sensor
\* has no live instance.
DisableEffect ==
    /\ (DisableCalled /\ last.sensor_id \in DOMAIN last.before.sensor_configs) =>
          /\ last.ret = TRUE
          /\ sensor_configs =
                [last.before.sensor_configs EXCEPT ![last.sensor_id].enabled = FALSE]
          /\ sensors = Del(last.before.sensors, last.sensor_id)
    /\ (DisableCalled /\ last.sensor_id \notin DOMAIN last.before.sensor_configs) =>
          /\ last.ret = FALSE
          /\ Reg = last.before
    /\ (ReadCalled /\ last.sensor_id \notin DOMAIN last.before.sensors) =>
          (~last.raised /\ last.ret.status = "error")

\* A live instance appears for an id only in a call that re-adds or
\* re-enables that id (add, load, enable, or configure, which calls add).
InstanceOnlyByAddOrEnable ==
    \A id \in SensorIds :
        (id \notin DOMAIN sensors /\ id \in DOMAIN sensors') =>
            /\ last'.op \in {"add", "load", "enable", "configure"}
            /\ last'.sensor_id = id

\* C12 (disable): disable_sensor on a registered sensor returns True, keeps
\* its configuration with enabled = false and removes its live instance;
\* from then on the sensor has no live instance until a call that re-enables
\* or re-adds it, and every read of a sensor without a live instance returns
\* a reading with status error.  disable_sensor on an absent id returns False
\* and changes nothing.
C12_Disable == [](DisableEffect) /\ [][InstanceOnlyByAddOrEnable]_vars

\* Witness of C12: an enabled sensor was disabled, and then read.
C12_Witness ==
    /\ ReadCalled
    /\ RegisteredDisabled(last.before, last.sensor_id)
    /\ last.before.sensor_configs[last.sensor_id].alias = "porch"
    /\ last.ret.status = "error"

\* add_sensor has just returned.
AddCalled == last.op = "add"

\* C14 (add is all-or-nothing): add_sensor with enabled = true on an absent
\* id whose driver instantiation fails returns False and leaves the id
\* absent and both tables as they were; add_sensor with enabled = false
\* returns True whatever the driver factory would do (it is not called),
\* stores the configuration and leaves no live instance for that id, every
\* other sensor untouched.
C14_AddAllOrNothing ==
    /\ (/\ AddCalled
        /\ last.args.config.enabled
        /\ Absent(last.before, last.sensor_id)
        /\ ~last.args.factory_ok) =>
          /\ last.ret = FALSE
          /\ Absent(Reg, last.sensor_id)
          /\ Reg = last.before
    /\ (AddCalled /\ ~last.args.config.enabled) =>
          /\ last.ret = TRUE
          /\ sensor_configs =
                Put(last.before.sensor_configs, last.sensor_id, last.args.config)
          /\ sensors = Del(last.before.sensors, last.sensor_id)

\* Witness of C14: a failed enabled add of an absent id, next to a sensor
\* that is registered and enabled.
C14_Witness ==
    /\ AddCalled
    /\ last.args.config.enabled
    /\ Absent(last.before, last.sensor_id)
    /\ ~last.args.factory_ok
    /\ DOMAIN last.before.sensors # {}
    /\ last.ret = FALSE

\* A remove, enable, disable or configure call has just returned, with a
\* save hook registered when it was called.
MutationCalled ==
    /\ last.op \in {"remove", "enable", "disable", "configure"}
    /\ last.before.hook

\* Whether that call succeeded: True for the boolean operations, status
\* success for configure.
MutationSucceeded ==
    IF last.op = "configure" THEN last.ret.status = "success" ELSE last.ret = TRUE

\* C15 (persistence trigger): with a save hook registered, every successful
\* remove, enable, disable and configure invokes the save hook once before it
\* returns, passing the configuration table as it is after the mutation; a
\* failed enable and a failed configure do not invoke the save hook.
C15_PersistenceTrigger ==
    /\ (MutationCalled /\ MutationSucceeded) =>
          /\ Len(last.saves) = 1
          /\ last.saves[1].configs = sensor_configs
    /\ (MutationCalled /\ last.op \in {"enable", "configure"} /\ ~MutationSucceeded) =>
          last.saves = << >>

\* Witness of C15: a successful remove of one of two sensors, saved.
C15_Witness ==
    /\ MutationCalled
    /\ last.op = "remove"
    /\ DOMAIN last.before.sensor_configs = SensorIds
    /\ Len(last.saves) = 1
    /\ DOMAIN last.saves[1].configs = SensorIds \ {last.sensor_id}

\* The save hook was called by the call that has just returned, and raised.
HookRaised ==
    /\ MutationCalled
    /\ Len(last.saves) = 1
    /\ last.saves[1].outcome = "raise"

\* The factory outcome the call met, when it reached the factory.
FactoryMet == [ok |-> last.args.factory_ok, serial |-> FreshSerial(last.before.sensors)]

\* The same call, from the same registry and with the same factory outcome,
\* with a save hook that works.
WithWorkingHook ==
    CASE last.op = "remove" -> remove_sensor(last.before, last.sensor_id, "ok")
      [] last.op = "disable" -> disable_sensor(last.before, last.sensor_id, "ok")
      [] last.op = "enable" -> enable_sensor(last.before, last.sensor_id, FactoryMet, "ok")
      [] last.op = "configure" ->
            configure_sensor(last.before, last.sensor_id, last.args.new_config,
                             FactoryMet, "ok")

\* C16 (persistence fault is non-fatal): when the save hook raises during
\* remove, enable, disable or configure, the operation still returns, both
\* tables are exactly as they would be with a working hook, and the returned
\* value is the one a working hook would give.
C16_PersistenceFaultNonFatal ==
    HookRaised =>
        /\ Reg = WithWorkingHook.reg
        /\ last.ret = WithWorkingHook.ret
        /\ MutationSucceeded

\* Witness of C16: a configure that re-created the instance while the save
\* hook raised, and reported success.
C16_Witness ==
    /\ HookRaised
    /\ last.op = "configure"
    /\ last.sensor_id \in DOMAIN sensors
    /\ sensor_configs # last.before.sensor_configs
    /\ last.ret.status = "success"

\* The publish call of this iteration has raised.
Failed == attempt.made /\ attempt.outcome \notin {"pending", "published"}

\* A failed attempt left the loop running, and is logged as an error when
\* the iteration has gone on to its sleep.
FailureContained ==
    /\ loop_pc \in LoopRunning \cup {"interrupted"}
    /\ (loop_pc \in {"sleeping", "loop"} /\ Failed) => attempt.logged = "error"

\* The loop ends by the external interrupt alone: every other step leaves
\* it running.
EndsByInterrupt ==
    (loop_pc \in LoopRunning /\ loop_pc' \notin LoopRunning) => loop_pc' = "interrupted"

\* C17 (the telemetry publisher never stops on failure): a failure raised
\* while reading the sensors or while signing or publishing the aggregate is
\* caught and logged and the loop keeps running; after a failed attempt a
\* later iteration attempts to publish again, unless the external interrupt
\* ends the loop first; nothing but that interrupt ends the loop.
C17_PublisherKeepsRunning ==
    /\ [](FailureContained)
    /\ [][EndsByInterrupt]_vars
    /\ ((loop_pc = "attempted" /\ Failed) ~> (loop_pc \in {"publishing", "interrupted"}))

\* Witness of C17: a publish that succeeded right after an attempt that
\* failed because the handler thread changed the instance table under the
\* iteration of read_all_sensors.
C17_Witness ==
    /\ loop_pc = "loop"
    /\ attempt.made
    /\ attempt.after_failure
    /\ attempt.outcome = "published"
    /\ attempt.logged = "info"

\* The all-sensors status has just been returned, by get_sensor_status() or
\* by process_command({"action": "status"}).
AllStatusCalled ==
    /\ last.op \in {"status", "status_command"}
    /\ ~Truthy(last.sensor_id)
    /\ ~last.raised
    /\ last.op = "status_command" => "result" \in DOMAIN last.ret

AllStatus == IF last.op = "status" THEN last.ret ELSE last.ret.result

\* An all-sensors status call that did not answer with a status: it raised,
\* or the command's reply is the error result of lines 522-529.
AllStatusFailed ==
    /\ last.op \in {"status", "status_command"}
    /\ ~Truthy(last.sensor_id)
    /\ \/ last.raised
       \/ last.op = "status_command" /\ "result" \notin DOMAIN last.ret

\* C18 (status snapshot): in every reachable registry state the all-sensors
\* status reports total_sensors equal to the number of stored
\* configurations and one entry per stored configuration, whose enabled
\* field is that configuration's enabled flag and whose initialized field is
\* true exactly when a live instance exists for that id.
C18_StatusSnapshot ==
    /\ ~AllStatusFailed
    /\ AllStatusCalled =>
          /\ AllStatus.total_sensors = Cardinality(DOMAIN sensor_configs)
          /\ DOMAIN AllStatus.sensors = DOMAIN sensor_configs
          /\ \A id \in DOMAIN sensor_configs :
                /\ AllStatus.sensors[id].sensor_id = id
                /\ AllStatus.sensors[id].enabled = sensor_configs[id].enabled
                /\ AllStatus.sensors[id].initialized = (id \in DOMAIN sensors)

\* configure_sensor has just returned; the id had a stored configuration
\* (Existed) or none when it was called.
ConfigureCalled == last.op = "configure"

Existed == last.sensor_id \in DOMAIN last.before.sensor_configs

Supplied(key) == key \in last.args.new_config.keys

\* The payload's field for every key in `given`, the stored configuration's
\* field otherwise.
MergedOver(existing, payload, given) ==
    SensorConfig(IF "sensor_type" \in given THEN payload.sensor_type ELSE existing.sensor_type,
                 IF "inputs" \in given THEN payload.inputs ELSE existing.inputs,
                 IF "enabled" \in given THEN payload.enabled ELSE existing.enabled,
                 IF "alias" \in given THEN payload.alias ELSE existing.alias)

\* A sensor_type counts as supplied only when it is not empty.
SuppliedNonEmpty(key) ==
    /\ Supplied(key)
    /\ key = "sensor_type" => Truthy(last.args.new_config.sensor_type)

SuppliedKeys == {key \in ConfigKeys : Supplied(key)}

SuppliedNonEmptyKeys == {key \in ConfigKeys : SuppliedNonEmpty(key)}

\* What configure_sensor does with the merged configuration cfg of an
\* existing id: the driver is instantiated exactly when cfg.enabled.  With
\* cfg enabled the outcome follows the factory (a new instance of cfg's type
\* and inputs, or status error and the tables as they were); with cfg
\* disabled the call succeeds whatever the factory would have done and no
\* instance is left.
ConfiguredAs(cfg) ==
    /\ (cfg.enabled /\ last.args.factory_ok) =>
          /\ last.ret = ConfigureSuccess(last.sensor_id, cfg)
          /\ sensor_configs = Put(last.before.sensor_configs, last.sensor_id, cfg)
          /\ sensors = Put(last.before.sensors, last.sensor_id,
                           Instance(cfg.sensor_type, cfg.inputs,
                                    FreshSerial(last.before.sensors)))
    /\ (cfg.enabled /\ ~last.args.factory_ok) =>
          /\ last.ret = ConfigureError("Failed to configure sensor")
          /\ sensor_configs = last.before.sensor_configs
          /\ sensors = last.before.sensors
          /\ last.saves = << >>
    /\ ~cfg.enabled =>
          /\ last.ret = ConfigureSuccess(last.sensor_id, cfg)
          /\ sensor_configs = Put(last.before.sensor_configs, last.sensor_id, cfg)
          /\ sensors = Del(last.before.sensors, last.sensor_id)

\* configure_sensor refused to create a sensor: status error, both tables
\* as they were, the save hook not called.
CreationRefused ==
    /\ last.ret = ConfigureError("sensor_type is required when creating a new sensor")
    /\ sensor_configs = last.before.sensor_configs
    /\ sensors = last.before.sensors
    /\ last.saves = << >>

\* C19 as the specification states it: every field, sensor_type included,
\* comes from the payload whenever the payload supplies it.  Violated:
\* configure_sensor("s1", {"sensor_type": ""}) keeps the stored type.
C19_AsStated ==
    /\ (ConfigureCalled /\ Existed) =>
          ConfiguredAs(MergedOver(last.before.sensor_configs[last.sensor_id],
                                  last.args.new_config, SuppliedKeys))
    /\ (ConfigureCalled /\ ~Existed /\ ~Supplied("sensor_type")) => CreationRefused

\* The sensor_type configure_sensor works with (line 344): the payload's when
\* supplied and not empty, else the stored one, else None.
ResultingType ==
    IF SuppliedNonEmpty("sensor_type") THEN last.args.new_config.sensor_type
    ELSE IF Existed THEN last.before.sensor_configs[last.sensor_id].sensor_type
    ELSE None

\* C19 (configure is create-or-update by merge), amended: configure_sensor
\* on an existing id builds the new configuration by taking inputs, enabled
\* and alias from the payload when supplied, sensor_type from the payload
\* when supplied and not empty, and each from the existing configuration
\* otherwise, and, when the resulting sensor_type is not empty, attempts
\* driver instantiation exactly when the resulting enabled is true;
\* configure_sensor whose resulting sensor_type is empty or missing (an
\* absent id without a non-empty sensor_type in the payload, or an existing
\* id whose stored sensor_type is empty and is not replaced) returns status
\* error and leaves the configuration table and the instance table
\* unchanged and the save hook uncalled.
C19_ConfigureMerges ==
    /\ (ConfigureCalled /\ Existed /\ Truthy(ResultingType)) =>
          ConfiguredAs(MergedOver(last.before.sensor_configs[last.sensor_id],
                                  last.args.new_config, SuppliedNonEmptyKeys))
    /\ (ConfigureCalled /\ ~Truthy(ResultingType)) => CreationRefused

\* configure_sensor refused an existing sensor whose stored type is empty.
RefusedOnExisting ==
    /\ ConfigureCalled
    /\ Existed
    /\ ~Truthy(ResultingType)
    /\ CreationRefused

\* Witness of C19: a payload with an empty sensor_type and a new alias was
\* merged over an enabled sensor, which got a new instance of its old type.
C19_Witness ==
    /\ ConfigureCalled
    /\ Existed
    /\ last.args.new_config.keys = {"sensor_type", "alias"}
    /\ last.args.new_config.sensor_type = ""
    /\ last.args.new_config.alias # last.before.sensor_configs[last.sensor_id].alias
    /\ last.before.sensor_configs[last.sensor_id].enabled
    /\ last.args.factory_ok
    /\ last.ret.status = "success"
    /\ sensor_configs[last.sensor_id].sensor_type
          = last.before.sensor_configs[last.sensor_id].sensor_type
    /\ sensor_configs[last.sensor_id].alias = last.args.new_config.alias
    /\ sensors[last.sensor_id].serial # last.before.sensors[last.sensor_id].serial

\* The sensor has a configuration with enabled = true and a live instance.
RegisteredEnabled(reg, id) ==
    /\ id \in DOMAIN reg.sensor_configs
    /\ reg.sensor_configs[id].enabled
    /\ id \in DOMAIN reg.sensors

\* C20 (three-state invariant): after any sequence of add, load, configure,
\* enable, disable and remove calls with any pattern of driver instantiation
\* successes and failures, every sensor id is absent, registered-disabled or
\* registered-enabled; in particular a stored configuration has
\* enabled = true if and only if a live instance exists for its id.
\* Violated: a failed enable_sensor leaves enabled = true without instance.
C20_ThreeStates ==
    \A id \in SensorIds :
        \/ Absent(Reg, id)
        \/ RegisteredDisabled(Reg, id)
        \/ RegisteredEnabled(Reg, id)

\* C21 (instance ownership): between any two registry operations, after any
\* sequence of add, load, configure, enable, disable and remove calls with
\* any pattern of instantiation failures, every id that has a live instance
\* also has a stored configuration, and that configuration has
\* enabled = true.
C21_InstanceOwnership ==
    \A id \in DOMAIN sensors :
        /\ id \in DOMAIN sensor_configs
        /\ sensor_configs[id].enabled

\* Witness of C21: a disable or a remove has just destroyed the live
\* instance of one sensor while the other sensor keeps its own.
C21_Witness ==
    /\ last.op \in {"disable", "remove"}
    /\ last.sensor_id \in DOMAIN last.before.sensors
    /\ last.sensor_id \notin DOMAIN sensors
    /\ \E other \in SensorIds \ {last.sensor_id} : RegisteredEnabled(Reg, other)

(***************************************************************************)
(* Claims about command dispatch (checked under Spec).  A state with       *)
(* pc = "returned" or "crashed" shows one finished on_received call: its   *)
(* envelope (env), what the collaborators did (outcomes), the client state *)
(* at entry (entry) and the observable events in order (events).           *)
(***************************************************************************)
Handled == pc \in {"returned", "crashed"}

Happened(kind) == \E i \in DOMAIN events : events[i].kind = kind

Times(kind) == Cardinality({i \in DOMAIN events : events[i].kind = kind})

IsReply(ev) == ev.kind = "reply"

Replies == SelectSeq(events, IsReply)

HandledAuthenticated == Handled /\ Authenticated(env, outcomes)

\* Every refresh the envelope flags succeeds.
RefreshesOk ==
    /\ env.update_rules => outcomes.rules.ok
    /\ env.update_device => outcomes.device.ok

\* Every flagged refresh was performed, and the client holds what it fetched.
RefreshesPerformed ==
    /\ env.update_rules => Happened("update_rules") /\ rules = outcomes.rules.value
    /\ env.update_device =>
          Happened("update_device") /\ device_info = outcomes.device.value

\* The sensor command processor ran once and returned a result.
ProcessorReturned ==
    /\ Times("sensor_command") = 1
    /\ \A i \in DOMAIN events : events[i].kind = "sensor_command" => ~events[i].raised

\* The signed reply that carries the processor's result.
IsSensorResultReply(ev) ==
    \E i \in DOMAIN events :
        /\ events[i].kind = "sensor_command"
        /\ ~events[i].raised
        /\ ev = Reply(env.response_topic, Signed(events[i].result))

IsAck(ev) == ev = Reply(env.response_topic, Signed(SuccessBody))

IsErrorReply(ev) ==
    /\ IsReply(ev)
    /\ "info" \in DOMAIN ev.message.cmd
    /\ ev.message.cmd.info = "error"

\* An authenticated envelope that carries a sensor command (a non-empty
\* mapping, which the processor handles without raising) and at least one
\* refresh flag, none of whose refreshes raises.
C1_Case ==
    /\ HandledAuthenticated
    /\ env.sensor_command.py = "dict"
    /\ env.update_rules \/ env.update_device
    /\ RefreshesOk

\* C1 as stated: every flagged refresh is performed, the processor runs, the
\* user callback is not invoked, and when response_topic is present the reply
\* emitted is the signed sensor-command result and nothing else.
C1_AsStated ==
    C1_Case =>
        /\ RefreshesPerformed
        /\ ProcessorReturned
        /\ ~Happened("callback")
        /\ TruthyTopic(env.response_topic) =>
              /\ Len(Replies) = 1
              /\ IsSensorResultReply(Replies[1])

\* C1 (P1, routing priority): for an authenticated envelope that carries a
\* sensor command (and no refresh or command processing raises), every
\* flagged refresh is performed, the sensor command processor runs once and
\* the user callback is not invoked.  When response_topic is present and
\* signing and publishing the result succeed, the only reply is the signed
\* sensor-command result; when signing or publishing it raises, no result
\* reply is emitted and the only reply that can appear is one error reply;
\* without a response_topic nothing is replied.
C1_SensorCommandRouting ==
    C1_Case =>
        /\ RefreshesPerformed
        /\ ProcessorReturned
        /\ ~Happened("callback")
        /\ (TruthyTopic(env.response_topic) /\ outcomes.reply = "sent") =>
              /\ Len(Replies) = 1
              /\ IsSensorResultReply(Replies[1])
        /\ (TruthyTopic(env.response_topic) /\ outcomes.reply # "sent") =>
              /\ Len(Replies) <= 1
              /\ \A i \in DOMAIN Replies : IsErrorReply(Replies[i])
        /\ ~TruthyTopic(env.response_topic) => Replies = << >>

\* Witness of C1: both refreshes, a read command and a published result.
C1_Witness ==
    /\ C1_Case
    /\ env.update_rules /\ env.update_device
    /\ rules # entry.rules
    /\ env.sensor_command.action = "read"
    /\ Len(Replies) = 1
    /\ IsSensorResultReply(Replies[1])

\* An envelope that decodes and whose expiry check fails (returns false or
\* raises), whatever the signature check would say.
C2_Case ==
    /\ Handled
    /\ Decodes(env)
    /\ outcomes.expiry \in {"false", "raise"}

\* C2 (P2, expiry gate): an envelope whose expiry check fails causes no
\* reply, no refresh, no callback or sensor-command invocation, and leaves
\* the rules, the device record and both sensor tables as they were.
C2_ExpiryGate ==
    C2_Case =>
        /\ Replies = << >>
        /\ ~Happened("update_rules") /\ ~Happened("update_device")
        /\ ~Happened("sensor_command") /\ ~Happened("callback")
        /\ Snapshot = entry

\* Witness of C2: an expired envelope with a valid signature that asked for
\* refreshes, a sensor command and a reply.
C2_Witness ==
    /\ C2_Case
    /\ outcomes.expiry = "false" /\ outcomes.auth = "true"
    /\ env.update_rules /\ env.update_device
    /\ TruthyCommand(env.sensor_command)
    /\ TruthyTopic(env.response_topic)
    /\ events = <<Ev("log_warning")>>

\* An authenticated envelope without a sensor command whose user callback
\* raised.
C3_Case ==
    /\ HandledAuthenticated
    /\ ~TruthyCommand(env.sensor_command)
    /\ Happened("callback")
    /\ outcomes.callback = "raise"

\* The envelope after a callback fault was acknowledged as usual.
AckedAfterFault ==
    (/\ prev_fault
     /\ HandledAuthenticated
     /\ ~TruthyCommand(env.sensor_command)
     /\ RefreshesOk
     /\ outcomes.callback = "return"
     /\ TruthyTopic(env.response_topic)
     /\ outcomes.reply = "sent")
    => (Happened("callback") /\ Len(Replies) = 1 /\ IsAck(Replies[1]))

\* C3 as stated: with a response_topic exactly one {info: error} reply is
\* emitted, no success acknowledgment, and the client keeps running.
C3_AsStated ==
    C3_Case =>
        /\ TruthyTopic(env.response_topic) =>
              /\ Len(Replies) = 1
              /\ IsErrorReply(Replies[1])
        /\ \A i \in DOMAIN Replies : ~IsAck(Replies[i])
        /\ pc = "returned"

\* C3 (P3, callback fault containment): when the user callback raises on an
\* authenticated envelope without a sensor command, no success
\* acknowledgment is emitted and on_received returns normally; with a
\* response_topic exactly one {info: error} reply carrying the exception is
\* emitted provided signing and publishing that reply succeed, and no reply
\* at all otherwise; the envelope that follows is processed normally.
C3_CallbackFaultContained ==
    /\ C3_Case =>
          /\ \A i \in DOMAIN Replies : ~IsAck(Replies[i])
          /\ pc = "returned"
          /\ (TruthyTopic(env.response_topic) /\ outcomes.error_reply = "sent") =>
                Replies = <<Reply(env.response_topic,
                                  Signed(ErrorBody(Msg("callback failed", None))))>>
          /\ (TruthyTopic(env.response_topic) /\ outcomes.error_reply # "sent") =>
                Replies = << >>
          /\ ~TruthyTopic(env.response_topic) => Replies = << >>
    /\ prev_fault => pc # "crashed"
    /\ AckedAfterFault

\* Witness of C3: the callback raised on the envelope that follows an earlier
\* callback fault, and the error reply went out.
C3_Witness ==
    /\ C3_Case
    /\ prev_fault
    /\ TruthyTopic(env.response_topic)
    /\ Len(Replies) = 1
    /\ IsErrorReply(Replies[1])

\* C6 (at-most-one reply): one on_received call emits at most one reply, and
\* a reply goes to the envelope's response_topic.
C6_AtMostOneReply ==
    Handled =>
        /\ Len(Replies) <= 1
        /\ \A i \in DOMAIN Replies : Replies[i].topic = env.response_topic

\* Witness of C6: signing or publishing the sensor result raised, and the
\* error reply is the one reply of the call.
C6_Witness ==
    /\ HandledAuthenticated
    /\ Happened("sensor_command")
    /\ outcomes.reply # "sent"
    /\ Len(Replies) = 1
    /\ IsErrorReply(Replies[1])

\* C7 (the handler never propagates): whatever the envelope and whatever the
\* collaborators raise, on_received returns to the transport.
C7_NeverPropagates == Handled => pc = "returned"

\* Witness of C7: the try body raised, the error reply raised in its turn,
\* and the call still returned after the outer handler's log line.
C7_Witness ==
    /\ HandledAuthenticated
    /\ pc = "returned"
    /\ TruthyTopic(env.response_topic)
    /\ outcomes.error_reply # "sent"
    /\ Replies = << >>
    /\ Len(events) > 0
    /\ events[Len(events)] = Ev("log_error")

\* An authenticated envelope whose device_exec has a sensor_command key,
\* whatever its value, and whose refreshes let control reach the routing.
C8_Case ==
    /\ HandledAuthenticated
    /\ env.sensor_command.py # "missing"
    /\ RefreshesOk

\* C8 (routing is exclusive): an authenticated envelope is handled by exactly
\* one of the sensor-command processor (sensor_command present) or the user
\* callback (sensor_command absent), never both.
C8_ExclusiveRouting ==
    /\ Handled => ~(Happened("sensor_command") /\ Happened("callback"))
    /\ C8_Case => (Times("sensor_command") = 1 /\ ~Happened("callback"))

\* A refresh, a handler invocation or a reply.
SideEffect ==
    \/ Happened("update_rules") \/ Happened("update_device")
    \/ Happened("sensor_command") \/ Happened("callback")
    \/ Replies # << >>
    \/ Snapshot # entry

\* C9 (authentication gates every side effect): a refresh, a handler
\* invocation or a reply happens only for an envelope that decoded and passed
\* both validate_expiry and check_auth; no reply goes to the response_topic
\* of an envelope that failed either check.
C9_AuthenticationGates ==
    Handled =>
        /\ SideEffect =>
              (Decodes(env) /\ outcomes.expiry = "true" /\ outcomes.auth = "true")
        /\ ~Authenticated(env, outcomes) => Replies = << >>

\* Witness of C9: an unexpired envelope with a bad signature that asked for
\* everything, and got a warning in the log.
C9_Witness ==
    /\ Handled
    /\ Decodes(env)
    /\ outcomes.expiry = "true" /\ outcomes.auth = "false"
    /\ env.update_rules /\ env.update_device
    /\ TruthyCommand(env.sensor_command)
    /\ TruthyTopic(env.response_topic)
    /\ ~SideEffect

\* An authenticated envelope without a sensor command whose user callback
\* returned normally.
C10_Case ==
    /\ HandledAuthenticated
    /\ ~TruthyCommand(env.sensor_command)
    /\ Happened("callback")
    /\ outcomes.callback = "return"

\* Each acknowledgment comes after the callback, which returned.
AckFollowsCallback ==
    \A i \in DOMAIN events :
        IsAck(events[i]) =>
            /\ outcomes.callback = "return"
            /\ \E j \in 1 .. (i - 1) : events[j] = Ev("callback")

\* C10 as stated: after the callback returns normally the handler emits the
\* signed {info: success} acknowledgment when response_topic is present, and
\* emits nothing when it is absent or empty.
C10_AsStated ==
    C10_Case =>
        /\ TruthyTopic(env.response_topic) =>
              \E i \in DOMAIN Replies : IsAck(Replies[i])
        /\ ~TruthyTopic(env.response_topic) => Replies = << >>

\* C10 (acknowledgment follows the callback): on an authenticated envelope
\* without a sensor command, once the user callback has returned normally
\* the handler emits the signed {info: success} acknowledgment when
\* response_topic is present and signing and publishing it succeed; when
\* signing or publishing the acknowledgment raises, no acknowledgment is
\* emitted and the only reply that can appear is one error reply; nothing is
\* emitted when response_topic is absent or empty.  An acknowledgment is
\* never emitted before the callback or after a callback that raised.
C10_AckFollowsCallback ==
    /\ C10_Case =>
          /\ (TruthyTopic(env.response_topic) /\ outcomes.reply = "sent") =>
                Replies = <<Reply(env.response_topic, Signed(SuccessBody))>>
          /\ (TruthyTopic(env.response_topic) /\ outcomes.reply # "sent") =>
                /\ Len(Replies) <= 1
                /\ \A i \in DOMAIN Replies : IsErrorReply(Replies[i])
          /\ ~TruthyTopic(env.response_topic) => Replies = << >>
    /\ Handled => AckFollowsCallback

\* Witness of C10: a refresh, then the callback, then the acknowledgment.
C10_Witness ==
    /\ C10_Case
    /\ env.update_device
    /\ Len(events) = 3
    /\ events[2] = Ev("callback")
    /\ IsAck(events[3])

\* The actions process_command knows.
KnownActions == {"read", "execute", "status", "configure"}

\* C13 (command processor boundary): for every sensor_command value the
\* dispatch core passes to process_command, including one that is not a
\* key-value map, process_command returns a structured result and never
\* raises; an unknown or missing action yields a result with status error.
C13_ProcessorBoundary ==
    Handled =>
        \A i \in DOMAIN events :
            events[i].kind = "sensor_command" =>
                /\ ~events[i].raised
                /\ env.sensor_command.action \notin KnownActions =>
                      events[i].result.status = "error"

\* Every event of the first kind comes before every event of the second.
Before(first, second) ==
    \A i, j \in DOMAIN events :
        (events[i].kind = first /\ events[j].kind = second) => i < j

RefreshKinds == {"update_rules", "update_device"}

HandlerKinds == {"sensor_command", "callback"}

HandlerStarted == \E h \in HandlerKinds : Happened(h)

\* Within one envelope: when the processor or the callback started, every
\* flagged refresh had completed (rules first, then device), and the reply
\* came after the handler.
RefreshBeforeHandler ==
    (HandledAuthenticated /\ HandlerStarted) =>
        /\ RefreshesPerformed
        /\ Before("update_rules", "update_device")
        /\ \A rf \in RefreshKinds, h \in HandlerKinds : Before(rf, h)
        /\ \A h \in HandlerKinds : Before(h, "reply")

\* Across envelopes: an effect (an event, a change of the caches or of the
\* registry) happens only in the step that handles one envelope from start
\* to return, and that step starts only when the envelope before it has
\* returned with nothing left pending.
SerialEffects ==
    (\/ events' # events /\ events' # << >>
     \/ rules' # rules
     \/ device_info' # device_info
     \/ sensors' # sensors
     \/ sensor_configs' # sensor_configs) =>
        /\ pc = "idle"
        /\ events = << >>
        /\ pc' = "returned"

\* C22 (ordering): within one authenticated envelope the update_rules
\* refresh and then the update_device refresh (when flagged) complete before
\* the sensor command processor or the user callback starts; across
\* envelopes delivered serially every effect of one envelope completes before
\* any effect of the next, so replies are emitted in arrival order.
C22_Ordering == [](RefreshBeforeHandler) /\ [][SerialEffects]_vars

\* Witness of C22: both refreshes, then the callback, then its
\* acknowledgment, in one envelope.
C22_Witness ==
    /\ HandledAuthenticated
    /\ env.update_rules /\ env.update_device
    /\ Happened("update_rules") /\ Happened("update_device")
    /\ Happened("callback")
    /\ Len(Replies) = 1
    /\ rules # entry.rules
    /\ device_info # entry.device_info

\* A registry operation has just completed with a save hook registered that
\* did not fail, and it changed the configuration table.
TableChangedWithHook ==
    /\ last.op \in {"add", "load", "configure", "enable", "disable", "remove"}
    /\ last.before.hook
    /\ \A i \in DOMAIN last.saves : last.saves[i].outcome = "ok"
    /\ sensor_configs # last.before.sensor_configs

\* C23 (persisted view tracks memory): with a save hook registered and never
\* failing, after every completed registry operation that changed the
\* configuration table the save hook has been invoked with the resulting
\* table, so the list most recently handed to the hook equals the table.
\* Violated: add_sensor and load_sensor_configs never call the hook.
C23_PersistedTracksMemory ==
    TableChangedWithHook =>
        /\ last.saves # << >>
        /\ last.saves[Len(last.saves)].configs = sensor_configs

(***************************************************************************)
(* Claims about construction and reconnection (checked under SpecStartup). *)
(***************************************************************************)
\* connect has returned to __init__.
ConnectReturned == init_pc = "connected" \/ Registered

\* C24 (reconnect): connect retries immediately and without limit after
\* every failed socket connect or failed subscribe emit; it never propagates
\* an exception, and it returns only after a socket connect succeeded and a
\* subscribe emit succeeded after it.
\* Violated: every retry is a nested call, and when the socket keeps
\* refusing the RecursionError of the deepest call leaves connect.
C24_Reconnect ==
    /\ init_pc # "connect_raised"
    /\ ConnectReturned => link = Subscribed

(***************************************************************************)
(* Claims about the two threads (checked under SpecThreads).               *)
(***************************************************************************)
\* C25 (unsynchronized interleaving): when a telemetry read is interleaved
\* at statement granularity with a registry mutation run by the dispatch
\* thread, the reader never observes an id that is in the instance table
\* without a stored configuration, never observes a live instance whose
\* configuration has enabled = false, and still returns without raising.
\* Violated: add_sensor stores the instance before the configuration, and
\* disable_sensor clears the flag before it drops the instance.
C25_ReaderSafe ==
    /\ ~reader.orphan
    /\ ~reader.disabled_live
    /\ reader.raised = "none"

(***************************************************************************)
(* Claims about a refresh that fails (checked under Spec).                 *)
(***************************************************************************)
\* An authenticated envelope whose update_rules fetch raised.
RulesFetchRaised ==
    /\ HandledAuthenticated
    /\ env.update_rules
    /\ ~outcomes.rules.ok

\* An authenticated envelope whose update_device fetch raised, after the
\* rule refresh (when flagged) had completed.
DeviceFetchRaised ==
    /\ HandledAuthenticated
    /\ env.update_rules => outcomes.rules.ok
    /\ env.update_device
    /\ ~outcomes.device.ok

\* Neither the sensor command processor nor the user callback ran, and the
\* registry is as it was.
NoHandlerRan ==
    /\ ~Happened("sensor_command")
    /\ ~Happened("callback")
    /\ sensors = entry.sensors
    /\ sensor_configs = entry.sensor_configs

\* The rule refresh of this envelope, when flagged, is applied.
RuleRefreshApplied ==
    env.update_rules =>
        /\ Happened("update_rules")
        /\ rules = outcomes.rules.value

\* The one reply is the {info: error} reply that carries the message.
OnlyErrorReply(text) ==
    Replies = <<Reply(env.response_topic, Signed(ErrorBody(Msg(text, None))))>>

\* With a response_topic the error reply is the only reply when signing and
\* publishing it succeed; otherwise there is no reply.
ErrorReplyIfSent(text) ==
    IF TruthyTopic(env.response_topic) /\ outcomes.error_reply = "sent"
    THEN OnlyErrorReply(text)
    ELSE Replies = << >>

\* C26 as stated: with a response_topic the only reply is one {info: error}
\* reply, whichever fetch raised.
C26_AsStated ==
    /\ RulesFetchRaised =>
          /\ rules = entry.rules
          /\ device_info = entry.device_info /\ ~Happened("update_device")
          /\ NoHandlerRan
          /\ IF TruthyTopic(env.response_topic)
             THEN OnlyErrorReply("get_rules failed") ELSE Replies = << >>
    /\ DeviceFetchRaised =>
          /\ device_info = entry.device_info
          /\ RuleRefreshApplied
          /\ NoHandlerRan
          /\ IF TruthyTopic(env.response_topic)
             THEN OnlyErrorReply("get_device failed") ELSE Replies = << >>

\* C26 (a refresh fault aborts routing and preserves the caches): when the
\* update_rules fetch raises for an authenticated envelope, the rule cache
\* keeps its previous contents, update_device is not attempted and no
\* handler runs; when the update_device fetch raises, device_info keeps its
\* previous value, the completed rule refresh stays applied and no handler
\* runs.  In both cases on_received returns, and with a response_topic the
\* only reply is the {info: error} reply provided signing and publishing it
\* succeed; otherwise there is no reply.
C26_RefreshFaultAborts ==
    /\ RulesFetchRaised =>
          /\ rules = entry.rules
          /\ device_info = entry.device_info /\ ~Happened("update_device")
          /\ NoHandlerRan
          /\ ErrorReplyIfSent("get_rules failed")
          /\ pc = "returned"
    /\ DeviceFetchRaised =>
          /\ device_info = entry.device_info
          /\ RuleRefreshApplied
          /\ NoHandlerRan
          /\ ErrorReplyIfSent("get_device failed")
          /\ pc = "returned"

\* Witness of C26: the device fetch raised after a rule refresh that changed
\* a non-empty cache, and the error reply went out.
C26_Witness ==
    /\ DeviceFetchRaised
    /\ env.update_rules
    /\ entry.rules # << >>
    /\ rules # entry.rules
    /\ TruthyTopic(env.response_topic)
    /\ OnlyErrorReply("get_device failed")

(***************************************************************************)
(* Claims about the pacing of the telemetry (checked under SpecAgent).     *)
(* `elapsed` is the time since last_publish, in whole seconds and capped   *)
(* at publish_interval; last_publish is the clock value read at the top of *)
(* the iteration that published last (or read before the loop).            *)
(***************************************************************************)
\* This step is the top of one iteration of the main loop.
Iterates == loop_pc = "loop" /\ loop_pc' \in {"publishing", "sleeping"}

\* This step is `last_publish = current_time`.
Stamps == loop_pc = "logged" /\ loop_pc' = "sleeping"

\* This step is the sleep that ends an iteration.
Sleeps == loop_pc = "sleeping" /\ loop_pc' = "loop"

\* This step is a second that passes inside the publish call.
Takes == loop_pc = "publishing" /\ loop_pc' = "publishing" /\ attempt'.took # attempt.took

\* A publish is attempted exactly on the ticks where publish_interval has
\* elapsed since last_publish.
AttemptsWhenDue == Iterates => (attempt'.made <=> elapsed >= publish_interval)

\* last_publish advances in an iteration that published, to the time that
\* iteration read at its top, and at no other point: elsewhere the clock
\* runs on or stands, for as long as the loop runs.
StampsOnSuccess ==
    /\ Stamps => attempt.outcome = "published" /\ elapsed' = attempt.took
    /\ (Sleeps \/ Takes) => elapsed' = Tick(elapsed)
    /\ (loop_pc' \in LoopRunning /\ ~(Stamps \/ Sleeps \/ Takes)) => elapsed' = elapsed

\* The iteration after a failed attempt attempts again, one second later.
RetriesNextTick ==
    (Iterates /\ Failed) =>
        /\ attempt'.made
        /\ attempt'.after_failure

\* An attempt is under way only when publish_interval has elapsed since
\* last_publish, and a failure leaves the clock where the attempt found it.
DueWhileAttempting ==
    /\ loop_pc \in {"publishing", "attempted", "logged"} => elapsed >= publish_interval
    /\ (loop_pc \in LoopRunning /\ Failed) => elapsed >= publish_interval

\* Two publish calls that succeeded returned at least publish_interval
\* apart.
PublishesApart ==
    (attempt.made /\ attempt.outcome = "published") => attempt.gap >= publish_interval

\* C27 as the specification states it: with the ticks, the publishes
\* themselves are at least publish_interval apart.  Violated: a publish call
\* that takes one second is stamped with the time of its tick, so the next
\* tick that is due comes publish_interval - 1 seconds after it returned.
C27_AsStated ==
    /\ [](DueWhileAttempting /\ PublishesApart)
    /\ [][AttemptsWhenDue /\ StampsOnSuccess /\ RetriesNextTick]_vars

\* C27 (telemetry pacing), amended: a publish is attempted only on a tick
\* where at least publish_interval has elapsed since the tick of the last
\* successful publish (or since the loop started); the timestamp advances
\* only after a successful publish, to the time read at the top of that
\* tick, so the ticks of two successful publishes are at least
\* publish_interval apart; after a failed publish the next attempt happens
\* on the very next one-second tick.
C27_Pacing ==
    /\ [](DueWhileAttempting)
    /\ [][AttemptsWhenDue /\ StampsOnSuccess /\ RetriesNextTick]_vars

\* Witness of C27: the stamp of a publish that took a second and succeeded
\* on the tick after a failed one.
C27_Witness ==
    /\ loop_pc = "sleeping"
    /\ attempt.made
    /\ attempt.after_failure
    /\ attempt.outcome = "published"
    /\ attempt.took = MaxPublishSeconds
    /\ elapsed = MaxPublishSeconds

(***************************************************************************)
(* Claims about the order of construction (checked under SpecStartup).     *)
(***************************************************************************)
\* Line 23: device_info before the first fetch.
Unfetched == "{}"

\* Where __init__ stands, in the order of its statements.
Stage ==
    CASE init_pc = "new" -> 0
      [] init_pc = "device" -> 1
      [] init_pc = "connect" -> 2
      [] init_pc = "connected" -> 3
      [] Registered -> 4
      [] OTHER -> 5

\* What each statement of __init__ finds done before it.
InOrder ==
    /\ init_pc = "new" => device_info = Unfetched /\ rules = << >>
    /\ init_pc = "device" => device_info \in DeviceInfos /\ rules = << >>
    /\ Stage \in 2 .. 4 => device_info \in DeviceInfos /\ rules \in RuleLists
    /\ Stage \in 0 .. 1 => link = [connected |-> FALSE, subscribed |-> FALSE]
    /\ Stage \in 3 .. 4 => link = Subscribed

\* A fetch failure ended the construction: nothing was connected.
AbortedUnconnected ==
    init_pc = "fetch_failed" =>
        /\ link = [connected |-> FALSE, subscribed |-> FALSE]
        /\ stack = << >>

\* on_received has been entered: it is running, or it has left its traces.
Dispatched ==
    \/ pc # "idle"
    \/ events # << >>
    \/ env # NoEnvelope
    \/ last # NoCall
    \/ delivered > 0

\* on_received runs only once it is registered, and never authenticates
\* against the device_info of line 23.
DispatchedAfterRegistration ==
    Dispatched =>
        /\ Registered
        /\ entry.device_info # Unfetched

\* Whatever has arrived between the subscription and the registration,
\* on_received has not been entered when line 32 is reached.
MissedNotDispatched == (missed /\ ~Registered) => ~Dispatched

\* __init__ moves forward one statement at a time, and ends on a failure;
\* what the application does after it leaves the handler registered.
StepsInOrder ==
    init_pc' # init_pc =>
        \/ Stage < 4 /\ Stage' = Stage + 1
        \/ Registered /\ Registered'
        \/ init_pc \in {"new", "device"} /\ init_pc' = "fetch_failed"
        \/ init_pc = "connect" /\ init_pc' = "connect_raised"

RulesCalled == last.op = "process_rules" /\ last.at = "done"

\* The positions of `local` whose rule the call built, found to match and
\* published: those before the first rule that could not be built.
PublishedAt(local, outs) ==
    {i \in 1 .. Len(local) :
        /\ outs[i] = "publish"
        /\ \A j \in 1 .. i : outs[j] # "build_raises"}

\* `published` holds the actions of exactly those positions, in order.
PublishedOf(local, outs, published) ==
    /\ Len(published) = Cardinality(PublishedAt(local, outs))
    /\ \A k \in DOMAIN published :
          \E i \in PublishedAt(local, outs) :
             /\ published[k] = local[i].action
             /\ Cardinality({j \in PublishedAt(local, outs) : j <= i}) = k

\* What a finished call did: on an empty cache it fetched and published
\* nothing, and raised exactly when the fetch did; on a cache that was not
\* empty it did not fetch and evaluated the rules that were cached when it
\* was called, whatever the transport cached meanwhile.
EvaluatedBoundList ==
    RulesCalled =>
        /\ last.local = << >> =>
              /\ last.fetch.called
              /\ last.published = << >>
              /\ last.raised <=> ~last.fetch.ok
        /\ last.local # << >> =>
              /\ ~last.fetch.called
              /\ PublishedOf(last.local, last.outs, last.published)
              /\ last.raised <=>
                    \E i \in 1 .. Len(last.local) : last.outs[i] = "build_raises"

\* A call starts with the list that is cached at that moment.
BindsCache ==
    (last.op = "none" /\ last'.op = "process_rules") => last'.local = rules

\* The call's refresh leaves the fetched rules in the cache (or the cache as
\* it was when the fetch raises) and the call's own list as it was bound; no
\* other step of the call writes the cache.
RefreshKeepsBoundList ==
    (last.op = "process_rules" /\ last'.op = "process_rules" /\ last' # last) =>
        /\ last'.local = last.local
        /\ IF last.at = "refresh"
           THEN rules' = IF last'.fetch.ok THEN last'.fetch.value ELSE rules
           ELSE rules' = rules

\* C29 (rule evaluation on an empty cache): a process_rules call made while
\* the cache is empty refreshes the cache but iterates the empty sequence
\* from before the refresh, so it publishes no rule action even when the
\* fetched rules match the data; the fetched rules are evaluated only by a
\* later call, which starts from what is cached then.
C29_EmptyCacheEvaluation ==
    /\ []EvaluatedBoundList
    /\ [][BindsCache /\ RefreshKeepsBoundList]_vars

\* Witness of C29: the cache was empty, the fetched rules are still cached
\* and all match the data, and the call published nothing.
C29_Witness ==
    /\ RulesCalled
    /\ last.local = << >>
    /\ last.fetch.ok
    /\ rules = last.fetch.value
    /\ Len(rules) = MaxCached
    /\ \A i \in 1 .. MaxCached : last.outs[i] = "publish"
    /\ last.published = << >>

(***************************************************************************)
(* Claims about the read-only operations (checked under SpecReads).        *)
(***************************************************************************)
ReadOnlyOps ==
    {"read", "read_all", "execute", "status", "read_command", "execute_command",
     "status_command", "publish_all"}

\* C30 (read-only operations have no registry effect): read_sensor,
\* read_all_sensors, execute_sensor_action, get_sensor_status, the
\* process_command actions read, execute and status, and the telemetry
\* publish leave the configuration table and the instance table unchanged
\* and never invoke the save hook, whether they succeed or return an error.
C30_ReadOnly ==
    last.op \in ReadOnlyOps =>
        /\ sensor_configs = last.before.sensor_configs
        /\ sensors = last.before.sensors
        /\ config_save_hook = last.before.hook
        /\ last.saves = << >>

\* Witness of C30: with a save hook registered, a read command for a live
\* sensor whose driver failed returned an error reading.
C30_Witness ==
    /\ last.op = "read_command"
    /\ config_save_hook
    /\ last.sensor_id \in DOMAIN sensors
    /\ sensor_configs[last.sensor_id].enabled
    /\ ~last.args.reads[last.sensor_id]
    /\ ~last.raised
    /\ last.ret.result.status = "error"

====
